---- MODULE Spec2Model ----
(***************************************************************************)
(* Model of mcp-sap-notes: the SapAuthenticator (src/src/auth.ts) and the  *)
(* SapNotesApiClient (src/src/sap-notes-api.ts).                           *)
(*                                                                         *)
(* JavaScript runs one job at a time.  A job runs from one await to the    *)
(* next; continuations of a settled promise run in the order in which they *)
(* were registered, before any new I/O event is delivered.  runq is that   *)
(* queue of ready continuations: a step of the environment (a new request, *)
(* a browser or network completion, the clock) is taken only when runq is  *)
(* empty.                                                                  *)
(***************************************************************************)
EXTENDS Integers, Sequences, FiniteSets, TLC

(* ------------------------------ bounds --------------------------------- *)
NumCallers == 3
NumRequests == 2
MaxTicks == 1
MaxInvalidations == 1
MaxDestroys == 2

Callers == 1..NumCallers
\* a caller invokes authenticate() at most once
MaxFlows == NumCallers
Flows == 1..MaxFlows
Requests == 1..NumRequests

(* ------------------------------ time ----------------------------------- *)
HourMs == 60 * 60 * 1000
bufferMs == 5 * 60 * 1000
\* Date.now() is StartMs at the start (any value far above the timeouts, as
\* the time since the epoch is) and advances in steps of TickMs: a credential
\* of one hour obtained at one clock value has reached its safety buffer at
\* the next
StartMs == 24 * HourMs
TickMs == HourMs - bufferMs
MaxJwtAgeChoices == {0, 1}

(* ------------------------------ tokens --------------------------------- *)
\* authState.token / access_token: undefined, '' (no cookies), or a cookie
\* string; id names the login flow that read the cookies (0: an earlier run
\* of the process, found in the cache file at start-up).
NoToken == [kind |-> "undefined", id |-> 0]
EmptyToken == [kind |-> "empty", id |-> 0]
FlowToken(f) == [kind |-> "cookies", id |-> f]
PrevToken == [kind |-> "cookies", id |-> 0]

Truthy(tok) == tok.kind = "cookies"

\* a header or environment value: undefined, or a string, which is the
\* sequence of its pieces: " " is one blank, any other piece a run of
\* non-blank characters
Undefined == [defined |-> FALSE, text |-> <<>>]
Str(s) == [defined |-> TRUE, text |-> s]

NoAuth == [token |-> NoToken, expiresAt |-> 0, isAuthenticated |-> FALSE]
NoCache == [present |-> FALSE, access_token |-> NoToken, cookies |-> <<>>, expiresAt |-> 0]

\* the cookies context.cookies() returns to login flow f: none, or the
\* session cookie set for that login
Cookie(f) == [name |-> "session", id |-> f]
CookieSets(f) == {<<>>, <<Cookie(f)>>}

\* allCookies.map(cookie => `${cookie.name}=${cookie.value}`).join('; ')
CookieString(allCookies) ==
  IF allCookies = <<>> THEN EmptyToken ELSE FlowToken(allCookies[1].id)

\* JSON.stringify(tokenData): the text, as its members in insertion order; a
\* member whose value is undefined is left out
JsonStringify(tokenData) ==
  (IF tokenData.access_token = NoToken THEN <<>>
   ELSE << <<"access_token", tokenData.access_token>> >>)
  \o << <<"cookies", tokenData.cookies>>, <<"expiresAt", tokenData.expiresAt>> >>

\* the member of a parsed text, `absent` when the text has none of that name
JsonMember(text, name, absent) ==
  IF \E k \in 1..Len(text) : text[k][1] = name
  THEN text[CHOOSE k \in 1..Len(text) : text[k][1] = name][2]
  ELSE absent

\* JsonParse reading a member expires_at
JsonParse_WrongKey(text) ==
  [present |-> TRUE,
   access_token |-> JsonMember(text, "access_token", NoToken),
   cookies |-> JsonMember(text, "cookies", <<>>),
   expiresAt |-> JsonMember(text, "expires_at", 0)]

\* JSON.parse(text), read through the members the program reads
JsonParse(text) ==
  [present |-> TRUE,
   access_token |-> JsonMember(text, "access_token", NoToken),
   cookies |-> JsonMember(text, "cookies", <<>>),
   expiresAt |-> JsonMember(text, "expiresAt", 0)]

\* TOKEN_CACHE_FILE: absent, or written by saveCachedToken
NoFile == [present |-> FALSE, text |-> <<>>]
SaveCachedToken(tokenData) == [present |-> TRUE, text |-> JsonStringify(tokenData)]

\* the file an earlier run of the process has left
PrevFile(expiresAt) ==
  SaveCachedToken([access_token |-> PrevToken, cookies |-> <<Cookie(0)>>,
                   expiresAt |-> expiresAt])

VARIABLES
  now,          \* Date.now()
  ticks,        \* number of clock steps taken
  maxJwtAgeH,   \* config.maxJwtAgeH
  authState,    \* SapAuthenticator.authState
  authPromise,  \* SapAuthenticator.authPromise: 0 (null) or the flow awaited
  authBrowser,  \* SapAuthenticator.browser: 0 (null) or the flow that launched it
  loginOpen,    \* login browsers that are open, by launching flow
  cache,        \* contents of TOKEN_CACHE_FILE
  flow,         \* the authenticate() invocations
  nextFlow,     \* next free flow id
  wq,           \* per flow: callers awaiting its promise, in registration order
  runq,         \* ready continuations
  pc,           \* per caller: position in ensureAuthenticated
  awaited,      \* per caller: flow whose promise it awaits
  invalidations,\* number of invalidateAuth() calls
  invalidated,  \* history: tokens obtained before the last invalidateAuth()
  firstAfter,   \* history: first caller to call after the last invalidateAuth()
  browser,      \* SapNotesApiClient.browser: 0 (null) or the request that launched it
  browserContext, \* SapNotesApiClient.browserContext: 0 (null) or its browser
  browserLastUsed, \* SapNotesApiClient.browserLastUsed
  openB,        \* persistent browsers that are open, by launching request
  req,          \* per request: the locals of searchNotes and getCoveoTokenWithPlaywright
  get,          \* the locals of the getNote call
  backend,      \* what the SAP endpoints answer for the identifier of the getNote call
  doc,          \* the answer a parser of note details is given
  rec,          \* the record the parser has built from it
  srch,         \* the locals of one searchNotes call, with its data
  mint,         \* the locals of one getCoveoTokenWithPlaywright call
  http,         \* the HTTP server: process.env.ACCESS_TOKEN, and the last request
                \* with what became of it
  td            \* the destroy() calls made: their count, the browser whose
                \* close() is awaited, and the credential held before

vars == <<now, ticks, maxJwtAgeH, authState, authPromise, authBrowser, loginOpen,
          cache, flow, nextFlow, wq, runq, pc, awaited, invalidations, invalidated,
          firstAfter, browser, browserContext, browserLastUsed, openB, req, get, backend, doc, rec, srch, mint, td, http>>

authVars == <<maxJwtAgeH, authState, authPromise, authBrowser, loginOpen, cache, flow,
              nextFlow, wq, runq, pc, awaited, invalidations, invalidated, firstAfter>>
clientVars == <<browser, browserContext, browserLastUsed, openB, req, get, backend, doc, rec, srch, mint, td, http>>

(* --------------------------- SapAuthenticator -------------------------- *)
IsTokenValid(st, t) ==
  /\ Truthy(st.token)
  /\ st.expiresAt # 0
  /\ t < st.expiresAt - bufferMs

IsTokenValidFromCache(c, t) ==
  /\ Truthy(c.access_token)
  /\ c.expiresAt # 0
  /\ t < c.expiresAt - bufferMs

\* loadCachedToken() returns null when the file is absent
LoadCachedToken == IF cache.present THEN JsonParse(cache.text) ELSE NoCache

Pending(f) == flow[f].phase \in {"launch", "nav", "cookies", "cleanup"}
Settled(f) == flow[f].phase \in {"fulfilled", "rejected"}
InFlight == {f \in Flows : Pending(f)}

\* one authenticate() call: its position, what it found of the certificate
\* file (until the browser is launched or the call has failed), the locals
\* attempt and lastError of the launch loop (read no more once the loop is
\* left), the caught waits that timed out before the cookies are read, and
\* the error to be thrown once cleanup() has returned; a rejected call keeps
\* the error it threw
NewFlow(ph) ==
  [phase |-> ph, cert |-> "unread", attempt |-> 1, lastError |-> "none", waits |-> {},
   failed |-> FALSE, closing |-> 0, error |-> "none"]

\* the error of a failed call and what it had found of the certificate file
Failure(ph, err) ==
  [NewFlow(ph) EXCEPT !.error = err,
                      !.cert = IF err = "CertificateLoadError" THEN "invalid" ELSE "unread"]

\* the promise of flow f settles, with error err when it rejects: its awaiters
\* become ready, in registration order.  The errors are those of lines
\* 583-589: AuthenticationTimeoutError, CertificateLoadError and
\* BrowserNotFoundError as thrown, any other wrapped in AuthenticationError
Settle(f, ph, err, rq) ==
  /\ flow' = [flow EXCEPT ![f] = Failure(ph, err)]
  /\ runq' = rq \o wq[f]
  /\ wq' = [wq EXCEPT ![f] = <<>>]

\* Authenticate going on to the launch whatever validateCertificate finds
Authenticate_NoValidation(p, certOk, rq) ==
  LET f == nextFlow
      cachedToken == LoadCachedToken
  IN
  /\ f <= MaxFlows
  /\ nextFlow' = f + 1
  /\ IF cachedToken.present /\ IsTokenValidFromCache(cachedToken, now)
     THEN /\ authState' = [token |-> cachedToken.access_token,
                           expiresAt |-> cachedToken.expiresAt,
                           isAuthenticated |-> TRUE]
          /\ flow' = [flow EXCEPT ![f] = NewFlow("fulfilled")]
          /\ runq' = Append(rq, p)
          /\ UNCHANGED wq
     ELSE /\ flow' = [flow EXCEPT ![f] = [NewFlow("launch") EXCEPT
                                           !.cert = IF certOk THEN "valid" ELSE "invalid"]]
          /\ wq' = [wq EXCEPT ![f] = <<p>>]
          /\ runq' = rq
          /\ UNCHANGED authState

\* authenticate() up to its first browser operation, run by caller p: adopt a
\* valid cached token and return; else validate the certificate (certOk) and
\* either fail (catch clears authState; finally awaits cleanup(), which
\* closes the browser in this.browser, if any) or go on to launch the browser.
\* rq is the ready queue without p.
Authenticate(p, certOk, rq) ==
  LET f == nextFlow
      cachedToken == LoadCachedToken
  IN
  /\ f <= MaxFlows
  /\ nextFlow' = f + 1
  /\ IF cachedToken.present /\ IsTokenValidFromCache(cachedToken, now)
     THEN /\ authState' = [token |-> cachedToken.access_token,
                           expiresAt |-> cachedToken.expiresAt,
                           isAuthenticated |-> TRUE]
          /\ flow' = [flow EXCEPT ![f] = NewFlow("fulfilled")]
          /\ runq' = Append(rq, p)
          /\ UNCHANGED wq
     ELSE IF certOk
     THEN /\ flow' = [flow EXCEPT ![f] = [NewFlow("launch") EXCEPT !.cert = "valid"]]
          /\ wq' = [wq EXCEPT ![f] = <<p>>]
          /\ runq' = rq
          /\ UNCHANGED authState
     ELSE /\ authState' = NoAuth
          /\ IF authBrowser # 0
             THEN /\ flow' = [flow EXCEPT ![f] =
                                [Failure("cleanup", "CertificateLoadError")
                                   EXCEPT !.failed = TRUE, !.closing = authBrowser]]
                  /\ wq' = [wq EXCEPT ![f] = <<p>>]
                  /\ runq' = rq
             ELSE /\ flow' = [flow EXCEPT ![f] = Failure("rejected", "CertificateLoadError")]
                  /\ runq' = Append(rq, p)
                  /\ UNCHANGED wq

\* ensureAuthenticated from the validity check on (lines 63-69)
CheckOrLogin(p, rq) ==
  IF IsTokenValid(authState, now)
  THEN /\ pc' = [pc EXCEPT ![p] = "done"]
       /\ awaited' = [awaited EXCEPT ![p] = 0]
       /\ runq' = rq
       /\ UNCHANGED <<authState, authPromise, flow, nextFlow, wq>>
  ELSE /\ \E certOk \in BOOLEAN : Authenticate(p, certOk, rq)
       /\ authPromise' = nextFlow
       /\ awaited' = [awaited EXCEPT ![p] = nextFlow]
       /\ pc' = [pc EXCEPT ![p] = "own69"]

\* the process runs: once the shutdown() of the server has returned it
\* exits (process.exit(0)) and nothing runs any more
Running == td.shutdown # "done"

\* a request handler calls ensureAuthenticated(); callers are numbered in the
\* order of their calls.  With authPromise set the caller awaits it (line 59):
\* "wait59" on a pending promise, "wait59s" on one that had already settled.
Call(p) ==
  /\ Running
  /\ runq = <<>>
  /\ pc[p] = "idle"
  /\ \A q \in Callers : q < p => pc[q] # "idle"
  /\ firstAfter' = IF invalidations > 0 /\ firstAfter = 0 THEN p ELSE firstAfter
  /\ IF authPromise # 0
     THEN /\ awaited' = [awaited EXCEPT ![p] = authPromise]
          /\ IF Settled(authPromise)
             THEN /\ pc' = [pc EXCEPT ![p] = "wait59s"]
                  /\ runq' = <<p>>
                  /\ UNCHANGED wq
             ELSE /\ pc' = [pc EXCEPT ![p] = "wait59"]
                  /\ wq' = [wq EXCEPT ![authPromise] = Append(@, p)]
                  /\ UNCHANGED runq
          /\ UNCHANGED <<authState, authPromise, flow, nextFlow>>
     ELSE CheckOrLogin(p, <<>>)
  /\ UNCHANGED <<now, ticks, maxJwtAgeH, authBrowser, loginOpen, cache,
                 invalidations, invalidated>>
  /\ UNCHANGED clientVars

\* the continuation of a caller whose awaited promise has settled
Resume(p) ==
  /\ Running
  /\ runq # <<>>
  /\ p = Head(runq)
  /\ \/ /\ pc[p] \in {"wait59", "wait59s"}
        /\ IF flow[awaited[p]].phase = "rejected"
           THEN /\ pc' = [pc EXCEPT ![p] = "failed"]
                /\ awaited' = [awaited EXCEPT ![p] = 0]
                /\ runq' = Tail(runq)
                /\ UNCHANGED <<authState, authPromise, flow, nextFlow, wq>>
           ELSE CheckOrLogin(p, Tail(runq))
     \/ /\ pc[p] = "own69"
        /\ runq' = Tail(runq)
        /\ awaited' = [awaited EXCEPT ![p] = 0]
        /\ IF flow[awaited[p]].phase = "rejected"
           THEN /\ pc' = [pc EXCEPT ![p] = "failed"]
                /\ UNCHANGED authPromise
           ELSE /\ authPromise' = 0
                /\ pc' = [pc EXCEPT ![p] =
                            IF ~Truthy(authState.token) THEN "notoken" ELSE "done"]
        /\ UNCHANGED <<authState, flow, nextFlow, wq>>
  /\ UNCHANGED <<now, ticks, maxJwtAgeH, authBrowser, loginOpen, cache,
                 invalidations, invalidated, firstAfter>>
  /\ UNCHANGED clientVars

\* catch block (authState cleared) followed by finally { await this.cleanup() }:
\* with a browser in this.browser its close() is awaited, else the promise
\* settles at once
FailFlow(f, err) ==
  /\ authState' = NoAuth
  /\ IF authBrowser # 0
     THEN /\ flow' = [flow EXCEPT ![f] =
                        [Failure("cleanup", err) EXCEPT !.failed = TRUE,
                                                        !.closing = authBrowser]]
          /\ UNCHANGED <<wq, runq>>
     ELSE Settle(f, "rejected", err, runq)

maxRetries == 3

\* one pass of the launch loop (the first one preceded by
\* checkBrowserAvailable and prepareClientCertificate): success, browser not
\* available, certificate file gone, a resource-exhaustion error or another
\* launch error; a launch error before the last attempt waits (2 s, 4 s
\* after a resource-exhaustion error, else 1 s) and loops
FlowLaunch(f) ==
  /\ Running
  /\ runq = <<>>
  /\ flow[f].phase = "launch"
  /\ \E outcome \in {"ok", "unavailable", "unreadable", "resource", "other"} :
       /\ outcome \in {"unavailable", "unreadable"} => flow[f].attempt = 1
       /\ IF outcome = "ok"
          THEN /\ authBrowser' = f
               /\ loginOpen' = loginOpen \cup {f}
               /\ flow' = [flow EXCEPT ![f] = NewFlow("nav")]
               /\ UNCHANGED <<authState, wq, runq>>
          ELSE IF outcome \in {"resource", "other"} /\ flow[f].attempt < maxRetries
               THEN /\ flow' = [flow EXCEPT ![f].attempt = @ + 1,
                                            ![f].lastError = outcome]
                    /\ UNCHANGED <<authState, authBrowser, loginOpen, wq, runq>>
               ELSE /\ FailFlow(f, CASE outcome = "unavailable" -> "BrowserNotFoundError"
                                        [] outcome = "unreadable" -> "CertificateLoadError"
                                        [] OTHER -> "AuthenticationError")
                    /\ UNCHANGED <<authBrowser, loginOpen>>
  /\ UNCHANGED <<now, ticks, maxJwtAgeH, authPromise, cache, nextFlow, pc, awaited,
                 invalidations, invalidated, firstAfter>>
  /\ UNCHANGED clientVars

\* newContext, newPage, page.goto raced against the 30 s timer, then the
\* waits whose timeout is caught: network idle (10 s) and, with the page still
\* on a login/auth path, a redirect away from it (30 s); late is the set of
\* those that timed out
FlowNav(f) ==
  /\ Running
  /\ runq = <<>>
  /\ flow[f].phase = "nav"
  /\ \E outcome \in {"ok", "timeout", "error"}, late \in SUBSET {"networkidle", "waitForURL"} :
       IF outcome = "ok"
       THEN /\ flow' = [flow EXCEPT ![f].phase = "cookies", ![f].waits = late]
            /\ UNCHANGED <<authState, wq, runq>>
       ELSE FailFlow(f, IF outcome = "timeout" THEN "AuthenticationTimeoutError" ELSE "AuthenticationError")
  /\ UNCHANGED <<now, ticks, maxJwtAgeH, authPromise, authBrowser, loginOpen, cache,
                 nextFlow, pc, awaited, invalidations, invalidated, firstAfter>>
  /\ UNCHANGED clientVars

\* FlowCookies with the file written before context.cookies() is awaited,
\* which may throw
FlowCookies_SavesFirst(f) ==
  /\ Running
  /\ runq = <<>>
  /\ flow[f].phase = "cookies"
  /\ \E allCookies \in CookieSets(f), read \in BOOLEAN :
       LET cookieString == CookieString(allCookies)
           expiresAt == now + maxJwtAgeH * HourMs
       IN
       /\ cache' = SaveCachedToken([access_token |-> cookieString,
                                    cookies |-> allCookies, expiresAt |-> expiresAt])
       /\ IF read
          THEN /\ authState' = [token |-> cookieString, expiresAt |-> expiresAt,
                                isAuthenticated |-> TRUE]
               /\ IF authBrowser # 0
                  THEN /\ flow' = [flow EXCEPT ![f] =
                                     [NewFlow("cleanup") EXCEPT !.closing = authBrowser]]
                       /\ UNCHANGED <<wq, runq>>
                  ELSE Settle(f, "fulfilled", "none", runq)
          ELSE FailFlow(f, "AuthenticationError")
  /\ UNCHANGED <<now, ticks, maxJwtAgeH, authPromise, authBrowser, loginOpen,
                 nextFlow, pc, awaited, invalidations, invalidated, firstAfter>>
  /\ UNCHANGED clientVars

\* context.cookies(), the cookie string, expiresAt, authState, saveCachedToken
\* (the file is written, or writeFileSync throws and the error is caught:
\* the file stays as it was), then finally { await this.cleanup() }
FlowCookies(f) ==
  /\ Running
  /\ runq = <<>>
  /\ flow[f].phase = "cookies"
  /\ \E allCookies \in CookieSets(f), written \in BOOLEAN :
       LET cookieString == CookieString(allCookies)
           expiresAt == now + maxJwtAgeH * HourMs
       IN
       /\ authState' = [token |-> cookieString, expiresAt |-> expiresAt,
                        isAuthenticated |-> TRUE]
       /\ cache' = IF written
                   THEN SaveCachedToken([access_token |-> cookieString,
                                         cookies |-> allCookies, expiresAt |-> expiresAt])
                   ELSE cache
  /\ IF authBrowser # 0
     THEN /\ flow' = [flow EXCEPT ![f] = [NewFlow("cleanup") EXCEPT !.closing = authBrowser]]
          /\ UNCHANGED <<wq, runq>>
     ELSE Settle(f, "fulfilled", "none", runq)
  /\ UNCHANGED <<now, ticks, maxJwtAgeH, authPromise, authBrowser, loginOpen,
                 nextFlow, pc, awaited, invalidations, invalidated, firstAfter>>
  /\ UNCHANGED clientVars

\* browser.close() of cleanup() has completed
FlowCleanup(f) ==
  /\ Running
  /\ runq = <<>>
  /\ flow[f].phase = "cleanup"
  /\ loginOpen' = loginOpen \ {flow[f].closing}
  /\ authBrowser' = 0
  /\ Settle(f, IF flow[f].failed THEN "rejected" ELSE "fulfilled", flow[f].error, runq)
  /\ UNCHANGED <<now, ticks, maxJwtAgeH, authState, authPromise, cache, nextFlow, pc,
                 awaited, invalidations, invalidated, firstAfter>>
  /\ UNCHANGED clientVars

InvalidateAuth ==
  /\ runq = <<>>
  /\ invalidations < MaxInvalidations
  /\ invalidations' = invalidations + 1
  /\ authState' = NoAuth
  /\ invalidated' = {tok \in {authState.token, LoadCachedToken.access_token} : Truthy(tok)}
  /\ firstAfter' = 0
  /\ UNCHANGED <<now, ticks, maxJwtAgeH, authPromise, authBrowser, loginOpen, cache,
                 flow, nextFlow, wq, runq, pc, awaited>>
  /\ UNCHANGED clientVars

Tick ==
  /\ runq = <<>>
  /\ ticks < MaxTicks
  /\ now' = now + TickMs
  /\ ticks' = ticks + 1
  /\ UNCHANGED <<maxJwtAgeH, authState, authPromise, authBrowser, loginOpen, cache,
                 flow, nextFlow, wq, runq, pc, awaited, invalidations, invalidated,
                 firstAfter>>
  /\ UNCHANGED clientVars

\* the HTTP server before start(): no request yet (status 0: none sent by
\* the middleware; reached: the MCP handler was invoked)
NewHttp ==
  [listening |-> FALSE, accessToken |-> Undefined, requests |-> 0, method |-> "none",
   bearer |-> Undefined, authorization |-> Undefined, body |-> "none", status |-> 0,
   reached |-> FALSE]

\* the destroy() calls: none made; no shutdown() of the server is under way
\* (server: the server that runs it, "stdio" or "http"; shutdown: its
\* position)
NewTeardown ==
  [destroys |-> 0, closing |-> 0, held |-> NoToken, flows |-> 0,
   server |-> "none", shutdown |-> "none"]

\* Destroy without the reset of authState
Destroy_KeepsState ==
  /\ runq = <<>>
  /\ td.destroys < MaxDestroys
  /\ td.closing = 0
  /\ UNCHANGED authState
  /\ loginOpen' = loginOpen \ {authBrowser}
  /\ td' = [td EXCEPT !.destroys = @ + 1, !.closing = authBrowser,
                       !.held = IF Truthy(authState.token) THEN authState.token ELSE @,
                       !.flows = IF Truthy(authState.token) THEN nextFlow ELSE @]
  /\ UNCHANGED <<now, ticks, maxJwtAgeH, authPromise, authBrowser, cache, flow, nextFlow,
                 wq, runq, pc, awaited, invalidations, invalidated, firstAfter>>
  /\ UNCHANGED <<browser, browserContext, browserLastUsed, openB, req, get, backend, doc,
                 rec, srch, mint, http>>

\* destroy() is called (shutdown() awaits it, so no destroy() is pending):
\* authState is reset and cleanup() runs up to its await, closing the
\* browser in this.browser, if any.  held and flows keep the credential that
\* was in authState and the number of authenticate() calls made so far.
DestroyCall(t) ==
  /\ runq = <<>>
  /\ t.destroys < MaxDestroys
  /\ t.closing = 0
  /\ authState' = NoAuth
  /\ loginOpen' = loginOpen \ {authBrowser}
  /\ td' = [t EXCEPT !.destroys = @ + 1, !.closing = authBrowser,
                      !.held = IF Truthy(authState.token) THEN authState.token ELSE @,
                      !.flows = IF Truthy(authState.token) THEN nextFlow ELSE @]
  /\ UNCHANGED <<now, ticks, maxJwtAgeH, authPromise, authBrowser, cache, flow, nextFlow,
                 wq, runq, pc, awaited, invalidations, invalidated, firstAfter>>
  /\ UNCHANGED <<browser, browserContext, browserLastUsed, openB, req, get, backend, doc,
                 rec, srch, mint, http>>

Destroy == DestroyCall(td)

\* browser.close() of the cleanup() of destroy() has completed (an error is
\* caught): the fields are cleared and destroy() returns, and with it the
\* shutdown() that awaits it
DestroyClosed ==
  /\ runq = <<>>
  /\ td.closing # 0
  /\ authBrowser' = 0
  /\ td' = [td EXCEPT !.closing = 0,
                       !.shutdown = IF @ = "destroying" THEN "done" ELSE @]
  /\ UNCHANGED <<now, ticks, maxJwtAgeH, authState, authPromise, loginOpen, cache, flow,
                 nextFlow, wq, runq, pc, awaited, invalidations, invalidated, firstAfter>>
  /\ UNCHANGED <<browser, browserContext, browserLastUsed, openB, req, get, backend, doc,
                 rec, srch, mint, http>>

\* the position of shutdown() once destroy() has been called
Destroying(t) == [t EXCEPT !.shutdown = IF authBrowser # 0 THEN "destroying" ELSE "done"]

shutdownFrame ==
  /\ UNCHANGED <<now, ticks, maxJwtAgeH, authState, authPromise, authBrowser, loginOpen,
                 cache, flow, nextFlow, wq, runq, pc, awaited, invalidations, invalidated,
                 firstAfter>>
  /\ UNCHANGED <<browserLastUsed, req, get, backend, doc, rec, srch, mint, http>>

\* SIGINT or SIGTERM: shutdown() of the server that runs.  The stdio server
\* calls authenticator.destroy() and nothing else; the HTTP server awaits
\* stop() first.
Shutdown ==
  /\ runq = <<>>
  /\ td.shutdown = "none"
  /\ \E server \in {"stdio", "http"} :
       IF server = "stdio"
       THEN DestroyCall(Destroying([td EXCEPT !.server = server]))
       ELSE /\ td' = [td EXCEPT !.server = server, !.shutdown = "stopping"]
            /\ UNCHANGED <<browser, browserContext, openB>>
            /\ shutdownFrame

\* HTTP server: the callback of server.close has run and stop() has
\* settled; sapNotesClient.cleanup() closes the browser in this.browser, if
\* any
ShutdownStopped ==
  /\ runq = <<>>
  /\ td.shutdown = "stopping"
  /\ openB' = openB \ {browser}
  /\ td' = [td EXCEPT !.shutdown = IF browser # 0 THEN "cleaning" ELSE "destroy"]
  /\ UNCHANGED <<browser, browserContext>>
  /\ shutdownFrame

\* HTTP server: browser.close() of cleanup() has completed (an error is
\* caught): the fields are cleared and cleanup() returns
ShutdownCleaned ==
  /\ runq = <<>>
  /\ td.shutdown = "cleaning"
  /\ browser' = 0
  /\ browserContext' = 0
  /\ td' = [td EXCEPT !.shutdown = "destroy"]
  /\ UNCHANGED openB
  /\ shutdownFrame

\* HTTP server: cleanup() has returned and authenticator.destroy() is called
ShutdownDestroy ==
  /\ td.shutdown = "destroy"
  /\ DestroyCall(Destroying(td))

InitAuth ==
  /\ td = NewTeardown
  /\ http = NewHttp
  /\ now = StartMs
  /\ ticks = 0
  /\ maxJwtAgeH \in MaxJwtAgeChoices
  /\ authState = NoAuth
  /\ authPromise = 0
  /\ authBrowser = 0
  /\ loginOpen = {}
  /\ cache \in {NoFile, PrevFile(StartMs + HourMs)}
  /\ flow = [f \in Flows |-> NewFlow("unused")]
  /\ nextFlow = 1
  /\ wq = [f \in Flows |-> <<>>]
  /\ runq = <<>>
  /\ pc = [p \in Callers |-> "idle"]
  /\ awaited = [p \in Callers |-> 0]
  /\ invalidations = 0
  /\ invalidated = {}
  /\ firstAfter = 0


(* --------------------------- SapNotesApiClient ------------------------- *)
BROWSER_IDLE_TIMEOUT == 5 * 60 * 1000

\* the locals of one searchNotes call:
\*   pc      position in searchNotes / getCoveoTokenWithPlaywright
\*   t0      the local `now` of getCoveoTokenWithPlaywright, until its last read
\*   target  browser of the pending newContext / newPage call
\*   page    0 (null) or the browser the page belongs to
\*   mout    how the token mint ends (token, failed, expired), until finally
\*           has run; "expired" is kept as history to the end of the call
\*   old     the browser this call has closed as idle, until its page is open
NewRequest ==
  [pc |-> "idle", t0 |-> 0, target |-> 0, page |-> 0, mout |-> "none", old |-> 0]

SetReq(r, v) == req' = [req EXCEPT ![r] = v]

\* searchNotes after the primary Coveo search has failed: fallback 1 (direct
\* note access) when the query matches /^\d{6,8}$/ (id), else fallback 2.
\* The query is read nowhere else on these paths, so it is drawn here.
PrimaryFailed(rq, id) ==
  [NewRequest EXCEPT !.pc = IF id THEN "fb1" ELSE "fb2",
                     !.mout = IF rq.mout = "expired" THEN "expired" ELSE "none"]

\* the catch block of getCoveoTokenWithPlaywright for an error other than
\* 'Session expired', then finally: with a page its close() is awaited, else
\* the error reaches searchNotes at once
MintFail(rq, id) ==
  IF rq.page # 0
  THEN [rq EXCEPT !.mout = "failed", !.pc = "pageclose"]
  ELSE PrimaryFailed([rq EXCEPT !.mout = "failed"], id)

\* the mint has its token: finally closes the page
MintToken(rq) == [rq EXCEPT !.mout = "token", !.pc = "pageclose"]

\* searchNotes returns a result set
Return(rq) == [rq EXCEPT !.pc = "returned"]

\* searchNotes throws 'SAP Notes search failed: ...'
Throw(rq) == [rq EXCEPT !.pc = "threw"]

\* lines 448-521 once the idle check is over, with br the value of
\* this.browser: launch a new browser when there is none or it is not
\* connected; else set browserLastUsed and open a page on this.browserContext
AfterIdleCheck(r, br, id) ==
  IF br = 0 \/ br \notin openB
  THEN /\ SetReq(r, [req[r] EXCEPT !.pc = "launching", !.t0 = now])
       /\ UNCHANGED browserLastUsed
  ELSE /\ browserLastUsed' = now
       /\ SetReq(r, IF browserContext = 0
                    THEN MintFail(req[r], id)
                    ELSE [req[r] EXCEPT !.pc = "newpage", !.target = browserContext])

\* a request handler calls searchNotes(query, token); requests are numbered in
\* the order of their calls.  The call runs up to the first fetch of
\* getCoveoTokenDirect.
StartSearch(r) ==
  /\ req[r].pc = "idle"
  /\ \A q \in Requests : q < r => req[q].pc # "idle"
  /\ SetReq(r, [req[r] EXCEPT !.pc = "direct"])
  /\ UNCHANGED <<browser, browserContext, browserLastUsed, openB>>
  /\ UNCHANGED <<now, ticks, authVars, get, backend, doc, rec, srch, mint, td, http>>

\* DirectDone without the idle check of lines 441-446
DirectDone_NoEviction(r) ==
  /\ req[r].pc = "direct"
  /\ \E ok \in BOOLEAN, id \in BOOLEAN :
       IF ok
       THEN /\ SetReq(r, [req[r] EXCEPT !.pc = "coveo"])
            /\ UNCHANGED <<browserLastUsed, openB>>
       ELSE /\ AfterIdleCheck(r, browser, id)
            /\ UNCHANGED openB
  /\ UNCHANGED <<browser, browserContext>>
  /\ UNCHANGED <<now, ticks, authVars, get, backend, doc, rec, srch, mint, td, http>>

\* getCoveoTokenDirect ends: with a token the Coveo search request is sent;
\* else getCoveoTokenWithPlaywright starts and runs up to its first await,
\* closing a browser that has been idle for too long
DirectDone(r) ==
  /\ req[r].pc = "direct"
  /\ \E ok \in BOOLEAN, id \in BOOLEAN :
       IF ok
       THEN /\ SetReq(r, [req[r] EXCEPT !.pc = "coveo"])
            /\ UNCHANGED <<browserLastUsed, openB>>
       ELSE IF browser # 0 /\ now - browserLastUsed > BROWSER_IDLE_TIMEOUT
            THEN /\ openB' = openB \ {browser}
                 /\ SetReq(r, [req[r] EXCEPT !.pc = "closing", !.t0 = now, !.old = browser])
                 /\ UNCHANGED browserLastUsed
            ELSE /\ AfterIdleCheck(r, browser, id)
                 /\ UNCHANGED openB
  /\ UNCHANGED <<browser, browserContext>>
  /\ UNCHANGED <<now, ticks, authVars, get, backend, doc, rec, srch, mint, td, http>>

\* close() of the idle browser has completed: the fields are cleared and a
\* new browser is launched
MintClosed(r) ==
  /\ req[r].pc = "closing"
  /\ browser' = 0
  /\ browserContext' = 0
  /\ SetReq(r, [req[r] EXCEPT !.pc = "launching"])
  /\ UNCHANGED <<browserLastUsed, openB>>
  /\ UNCHANGED <<now, ticks, authVars, get, backend, doc, rec, srch, mint, td, http>>

\* chromium.launch has settled; on success newContext is called on the new browser
MintLaunched(r) ==
  /\ req[r].pc = "launching"
  /\ \E ok \in BOOLEAN, id \in BOOLEAN :
       IF ok
       THEN /\ browser' = r
            /\ openB' = openB \cup {r}
            /\ SetReq(r, [req[r] EXCEPT !.pc = "newctx", !.target = r])
       ELSE /\ SetReq(r, MintFail(req[r], id))
            /\ UNCHANGED <<browser, openB>>
  /\ UNCHANGED <<browserContext, browserLastUsed>>
  /\ UNCHANGED <<now, ticks, authVars, get, backend, doc, rec, srch, mint, td, http>>

\* newContext has settled; on success getCachedCookies is awaited
MintContext(r) ==
  /\ req[r].pc = "newctx"
  /\ \E id \in BOOLEAN :
       IF req[r].target \in openB
       THEN /\ browserContext' = req[r].target
            /\ SetReq(r, [req[r] EXCEPT !.pc = "cookies"])
       ELSE /\ SetReq(r, MintFail(req[r], id))
            /\ UNCHANGED browserContext
  /\ UNCHANGED <<browser, browserLastUsed, openB>>
  /\ UNCHANGED <<now, ticks, authVars, get, backend, doc, rec, srch, mint, td, http>>

\* getCachedCookies has settled: the credential's cookies are added to
\* this.browserContext
MintCookies(r) ==
  /\ req[r].pc = "cookies"
  /\ \E id \in BOOLEAN :
       SetReq(r, IF browserContext # 0
                 THEN [req[r] EXCEPT !.pc = "addcookies", !.target = browserContext]
                 ELSE MintFail(req[r], id))
  /\ UNCHANGED <<browser, browserContext, browserLastUsed, openB>>
  /\ UNCHANGED <<now, ticks, authVars, get, backend, doc, rec, srch, mint, td, http>>

\* addCookies has settled; on success browserLastUsed is set and newPage is
\* called on this.browserContext
MintAddCookies(r) ==
  /\ req[r].pc = "addcookies"
  /\ \E id \in BOOLEAN :
       IF req[r].target \in openB
       THEN /\ browserLastUsed' = req[r].t0
            /\ SetReq(r, IF browserContext # 0
                         THEN [req[r] EXCEPT !.pc = "newpage", !.t0 = 0,
                                             !.target = browserContext]
                         ELSE MintFail(req[r], id))
       ELSE /\ SetReq(r, MintFail(req[r], id))
            /\ UNCHANGED browserLastUsed
  /\ UNCHANGED <<browser, browserContext, openB>>
  /\ UNCHANGED <<now, ticks, authVars, get, backend, doc, rec, srch, mint, td, http>>

\* newPage has settled; with a page the listeners are attached and
\* page.goto(home) is called
MintPage(r) ==
  /\ req[r].pc = "newpage"
  /\ \E id \in BOOLEAN :
       SetReq(r, IF req[r].target \in openB
                 THEN [req[r] EXCEPT !.pc = "home", !.page = req[r].target, !.target = 0,
                                     !.old = 0]
                 ELSE MintFail(req[r], id))
  /\ UNCHANGED <<browser, browserContext, browserLastUsed, openB>>
  /\ UNCHANGED <<now, ticks, authVars, get, backend, doc, rec, srch, mint, td, http>>

\* page.goto(home) has settled (an error is caught).  A redirect to a login
\* page ends the mint with 'Session expired': the catch block closes the
\* browser in this.browser, if any, and awaits its close().  Else the page is
\* inspected (title, cookies, evaluate, 2 s wait) and, without a captured
\* token, navigated to the knowledge search page.
MintHome(r) ==
  /\ req[r].pc = "home"
  /\ \E redirected \in BOOLEAN, captured \in BOOLEAN, id \in BOOLEAN :
       IF redirected
       THEN /\ openB' = openB \ {browser}
            /\ SetReq(r, [req[r] EXCEPT !.mout = "expired",
                            !.pc = IF browser # 0 THEN "expclose" ELSE "pageclose"])
       ELSE /\ UNCHANGED openB
            /\ SetReq(r, IF req[r].page \notin openB THEN MintFail(req[r], id)
                         ELSE IF captured THEN MintToken(req[r])
                         ELSE [req[r] EXCEPT !.pc = "search"])
  /\ UNCHANGED <<browser, browserContext, browserLastUsed>>
  /\ UNCHANGED <<now, ticks, authVars, get, backend, doc, rec, srch, mint, td, http>>

\* the navigation to the search page and the 5 s wait are over (errors are
\* caught); without a captured token the in-page fetch is evaluated
MintSearch(r) ==
  /\ req[r].pc = "search"
  /\ \E captured \in BOOLEAN :
       SetReq(r, IF captured /\ req[r].page \in openB THEN MintToken(req[r])
                 ELSE [req[r] EXCEPT !.pc = "hybrid"])
  /\ UNCHANGED <<browser, browserContext, browserLastUsed, openB>>
  /\ UNCHANGED <<now, ticks, authVars, get, backend, doc, rec, srch, mint, td, http>>

\* the in-page fetch has settled (an error is caught); without a token the
\* page's window and storage are inspected
MintHybrid(r) ==
  /\ req[r].pc = "hybrid"
  /\ \E found \in BOOLEAN :
       SetReq(r, IF found /\ req[r].page \in openB THEN MintToken(req[r])
                 ELSE [req[r] EXCEPT !.pc = "pagejs"])
  /\ UNCHANGED <<browser, browserContext, browserLastUsed, openB>>
  /\ UNCHANGED <<now, ticks, authVars, get, backend, doc, rec, srch, mint, td, http>>

\* the inspection has settled: a token, or 'Unable to extract Coveo token'
MintPageJs(r) ==
  /\ req[r].pc = "pagejs"
  /\ \E found \in BOOLEAN, id \in BOOLEAN :
       SetReq(r, IF found /\ req[r].page \in openB THEN MintToken(req[r])
                 ELSE MintFail(req[r], id))
  /\ UNCHANGED <<browser, browserContext, browserLastUsed, openB>>
  /\ UNCHANGED <<now, ticks, authVars, get, backend, doc, rec, srch, mint, td, http>>

\* close() of the browser of an expired session has completed: the fields
\* are cleared, SESSION_EXPIRED is thrown and finally closes the page
MintExpClosed(r) ==
  /\ req[r].pc = "expclose"
  /\ browser' = 0
  /\ browserContext' = 0
  /\ SetReq(r, [req[r] EXCEPT !.pc = "pageclose"])
  /\ UNCHANGED <<browserLastUsed, openB>>
  /\ UNCHANGED <<now, ticks, authVars, get, backend, doc, rec, srch, mint, td, http>>

\* page.close() of finally has settled: the token goes to the Coveo search
\* request; SESSION_EXPIRED and any other error are caught in searchNotes as
\* 'Coveo token extraction failed' and the fallbacks start
MintPageClosed(r) ==
  /\ req[r].pc = "pageclose"
  /\ \E id \in BOOLEAN :
       SetReq(r, IF req[r].mout = "token"
                 THEN [NewRequest EXCEPT !.pc = "coveo"]
                 ELSE PrimaryFailed(req[r], id))
  /\ UNCHANGED <<browser, browserContext, browserLastUsed, openB>>
  /\ UNCHANGED <<now, ticks, authVars, get, backend, doc, rec, srch, mint, td, http>>

\* the Coveo search request has settled
CoveoDone(r) ==
  /\ req[r].pc = "coveo"
  /\ \E ok \in BOOLEAN, id \in BOOLEAN :
       SetReq(r, IF ok THEN Return(req[r]) ELSE PrimaryFailed(req[r], id))
  /\ UNCHANGED <<browser, browserContext, browserLastUsed, openB>>
  /\ UNCHANGED <<now, ticks, authVars, get, backend, doc, rec, srch, mint, td, http>>

\* fallback 1: getNote(query) has returned a note or null
Fallback1Done(r) ==
  /\ req[r].pc = "fb1"
  /\ \E note \in BOOLEAN :
       SetReq(r, IF note THEN Return(req[r]) ELSE [req[r] EXCEPT !.pc = "fb2"])
  /\ UNCHANGED <<browser, browserContext, browserLastUsed, openB>>
  /\ UNCHANGED <<now, ticks, authVars, get, backend, doc, rec, srch, mint, td, http>>

\* fallback 2: searchViaInternalAPI has settled; without results searchNotes
\* throws 'SAP Notes search failed: Search temporarily unavailable ...'
Fallback2Done(r) ==
  /\ req[r].pc = "fb2"
  /\ \E results \in BOOLEAN :
       SetReq(r, IF results THEN Return(req[r]) ELSE Throw(req[r]))
  /\ UNCHANGED <<browser, browserContext, browserLastUsed, openB>>
  /\ UNCHANGED <<now, ticks, authVars, get, backend, doc, rec, srch, mint, td, http>>

InitClient ==
  /\ browser = 0
  /\ browserContext = 0
  /\ browserLastUsed = 0
  /\ openB = {}
  /\ req = [r \in Requests |-> NewRequest]

(* ------------------------------- getNote ------------------------------- *)
\* the fallback endpoints of getNote, in list order
fallbackEndpoints == <<"Notes", "KnowledgeBaseEntries", "support/notes">>

\* what getNoteWithPlaywright does for the identifier: it returns a note,
\* returns null (page loaded, nothing extracted) or throws
PlaywrightAnswers == {"note", "null", "throws"}

\* what an HTTP endpoint answers: status "ok" (2xx), "notfound" (404),
\* "error" (any other status) or "network" (fetch rejects), and the kind of
\* body: JSON with a member d, JSON with a member SapNote / id / noteId, a
\* redirect page (fragmentAfterLogin, document.cookie), or anything else
Bodies == {"json_d", "json_note", "redirect", "other"}
HttpAnswers ==
  [status : {"ok"}, body : Bodies] \cup [status : {"notfound", "error", "network"}, body : {"other"}]

Backends ==
  [playwright : PlaywrightAnswers, raw : HttpAnswers,
   fallback : [1..Len(fallbackEndpoints) -> HttpAnswers]]

\* what getNote returns: null, or a SapNoteDetail built from the fields of
\* the answer ("record"), the 'note found via raw API' record ("located"),
\* or the record of parseHtmlForNoteDetail that holds nothing but the
\* identifier and a title ("stub")
Null == [kind |-> "null"]
Note(k) == [kind |-> k]
Thrown == [kind |-> "thrown"]

\* makeRequest: throws when fetch rejects or the status is neither 2xx nor 404
MakeRequest(ans) ==
  IF ans.status \in {"ok", "notfound"} THEN ans ELSE Thrown

\* makeRawRequest: as makeRequest (301 and 302 are followed by fetch)
MakeRawRequest(ans) ==
  IF ans.status \in {"ok", "notfound"} THEN ans ELSE Thrown

MapToSapNoteDetail == Note("record")

\* parseHtmlForNoteDetail never returns null
ParseHtmlForNoteDetail == Note("stub")

\* parseNoteResponse: JSON with jsonData.d is mapped, anything else goes to
\* the HTML parser
ParseNoteResponse(body) ==
  IF body = "json_d" THEN MapToSapNoteDetail ELSE ParseHtmlForNoteDetail

\* parseRawNoteDetail, for an identifier that matches /^\d{6,8}$/ or not (isId)
ParseRawNoteDetail(body, isId) ==
  IF body = "json_note" THEN Note("record")
  ELSE IF body = "redirect" /\ isId THEN Note("located")
  ELSE ParseHtmlForNoteDetail

\* the locals of the getNote call: position, index of the fallback endpoint
\* awaited, whether noteId matches /^\d{6,8}$/, the value returned, the
\* strategies attempted so far, in order, and the locals browser and page of
\* getNoteWithPlaywright ("null", "open" or "closed") until it has returned
NewGet ==
  [pc |-> "idle", i |-> 0, isId |-> FALSE, result |-> Null, tried |-> <<>>,
   browser |-> "null", page |-> "null"]

getFrame == UNCHANGED <<now, ticks, authVars, browser, browserContext, browserLastUsed,
                        openB, req, backend, doc, rec, srch, mint, td, http>>

\* the loop over fallbackEndpoints from endpoint i on, up to its next await;
\* past the last endpoint getNote returns null
NextFallback(g, i) ==
  IF i <= Len(fallbackEndpoints)
  THEN [g EXCEPT !.pc = "fallback", !.i = i, !.tried = Append(g.tried, fallbackEndpoints[i])]
  ELSE [g EXCEPT !.pc = "returned", !.i = 0, !.result = Null]

ReturnNote(g, note) == [g EXCEPT !.pc = "returned", !.i = 0, !.result = note]

\* getNote(noteId, token) is called and calls getNoteWithPlaywright, which
\* runs up to chromium.launch
GetNote ==
  /\ get.pc = "idle"
  /\ \E id \in BOOLEAN : get' = [get EXCEPT !.pc = "pwsetup", !.isId = id,
                                            !.tried = <<"playwright">>]
  /\ getFrame

\* chromium.launch, newContext, the cookies and newPage of
\* getNoteWithPlaywright: each can throw when the strategy is one that
\* throws, leaving the locals set so far; else the page is worked on
NotePwSetup ==
  /\ get.pc = "pwsetup"
  /\ \E at \in {"launch", "newContext", "newPage", "none"} :
       /\ at # "none" => backend.playwright = "throws"
       /\ get' = [get EXCEPT !.pc = IF at = "none" THEN "pwbody" ELSE "pwfinally",
                             !.browser = IF at = "launch" THEN "null" ELSE "open",
                             !.page = IF at = "none" THEN "open" ELSE "null"]
  /\ getFrame

\* the navigation and the extraction have settled: a note or null is
\* returned or an error is thrown, and finally starts
NotePwBody ==
  /\ get.pc = "pwbody"
  /\ get' = [get EXCEPT !.pc = "pwfinally"]
  /\ getFrame

\* NotePwFinally closing the page only
NotePwFinally_KeepsBrowser ==
  /\ get.pc = "pwfinally"
  /\ get' = [get EXCEPT !.pc = "playwright",
                        !.page = IF @ = "open" THEN "closed" ELSE @]
  /\ getFrame

\* finally of getNoteWithPlaywright: page.close() when there is a page,
\* then browser.close() when there is a browser (errors are caught)
NotePwFinally ==
  /\ get.pc = "pwfinally"
  /\ get' = [get EXCEPT !.pc = "playwright",
                        !.page = IF @ = "open" THEN "closed" ELSE @,
                        !.browser = IF @ = "open" THEN "closed" ELSE @]
  /\ getFrame

\* getNoteWithPlaywright has settled: a note is returned; null or an error
\* (caught) leads to the raw HTTP request
PlaywrightDone ==
  /\ get.pc = "playwright"
  /\ LET g == [get EXCEPT !.browser = "null", !.page = "null"]
     IN get' = IF backend.playwright = "note"
               THEN ReturnNote(g, Note("record"))
               ELSE [g EXCEPT !.pc = "raw", !.tried = Append(g.tried, "raw")]
  /\ getFrame

\* RawDone that goes on with the second fallback endpoint
RawDone_SkipsEndpoint ==
  /\ get.pc = "raw"
  /\ LET rawResponse == MakeRawRequest(backend.raw)
     IN get' = IF rawResponse # Thrown /\ rawResponse.status = "ok"
               THEN ReturnNote(get, ParseRawNoteDetail(rawResponse.body, get.isId))
               ELSE NextFallback(get, 2)
  /\ getFrame

\* makeRawRequest has settled: an ok response is parsed and its note
\* returned; any other response or an error (caught) leads to the fallback
\* endpoints
RawDone ==
  /\ get.pc = "raw"
  /\ LET rawResponse == MakeRawRequest(backend.raw)
     IN get' = IF rawResponse # Thrown /\ rawResponse.status = "ok"
               THEN ReturnNote(get, ParseRawNoteDetail(rawResponse.body, get.isId))
               ELSE NextFallback(get, 1)
  /\ getFrame

\* FallbackDone without the catch of lines 248-251: the error of an endpoint
\* ends getNote
FallbackDone_Rethrows ==
  /\ get.pc = "fallback"
  /\ LET response == MakeRequest(backend.fallback[get.i])
     IN get' = IF response # Thrown
               THEN ReturnNote(get, ParseNoteResponse(response.body))
               ELSE ReturnNote(get, Thrown)
  /\ getFrame

\* makeRequest to fallback endpoint get.i has settled: a response is parsed
\* and its note returned; an error is caught and the next endpoint is tried
FallbackDone ==
  /\ get.pc = "fallback"
  /\ LET response == MakeRequest(backend.fallback[get.i])
     IN get' = IF response # Thrown
               THEN ReturnNote(get, ParseNoteResponse(response.body))
               ELSE NextFallback(get, get.i + 1)
  /\ getFrame

\* no getNote call is made: the backend is not looked at
Unreachable == [status |-> "network", body |-> "other"]
InitGet ==
  /\ get = NewGet
  /\ backend = [playwright |-> "throws", raw |-> Unreachable,
                fallback |-> [e \in 1..Len(fallbackEndpoints) |-> Unreachable]]

(* --------------------------- note record fields ------------------------ *)
\* the 8 metrics of a CVSS v3 vector, in the order of the vector string
MetricKeys == {"AV", "AC", "PR", "UI", "S", "C", "I", "A"}

\* a vector string is modelled by the set of metrics it carries; the empty
\* set stands for undefined (no vector string)
NoVector == {}
FullVector == MetricKeys
PartialVectors == {MetricKeys \ {k} : k \in MetricKeys}
Vectors == {NoVector, FullVector} \cup PartialVectors

NoteIds == {"1111111", "2222222"}

\* what the endpoints hold for a request of noteId:
\*   idField       SapNote / Id / id / Header.Number of the answer ("" absent)
\*   fieldVector   CvssVector / CVSS.CVSS_Vector.vectorValue of the answer
\*   fieldScore    CvssScore / CVSS.CVSS_Score.value is present
\*   textVector    the text 'CVSS:3.x/...' in the content, by its metrics
\*   textScore     the text 'CVSS ... n.n' is in the content
\*   tabMetrics    metrics whose row of the Launchpad CVSS tab resolves
\*   tabScore      the Launchpad page shows a score
Docs ==
  [noteId : NoteIds, idField : {""} \cup NoteIds, fieldVector : Vectors,
   fieldScore : BOOLEAN, textVector : Vectors, textScore : BOOLEAN,
   tabMetrics : Vectors, tabScore : BOOLEAN]

\* a || b of JavaScript on strings and on vector strings
OrStr(a, b) == IF a # "" THEN a ELSE b
OrVec(a, b) == IF a # NoVector THEN a ELSE b

\* extractCvssFromContent: the match of /CVSS:3\.\d\/[A-Z:\/]+/i is returned
\* as it stands, whatever metrics it carries
ExtractCvssFromContent(d) == [cvssScore |-> d.textScore, cvssVector |-> d.textVector]

\* extractCvssFromPage: the vector is built only from 8 resolved metrics
ExtractCvssFromPage(d) ==
  [cvssScore |-> d.tabScore,
   cvssVector |-> IF Cardinality(d.tabMetrics) >= 8 THEN FullVector ELSE NoVector]

\* enhanceWithCvssFromTab
EnhanceWithCvssFromTab(noteDetail, d) ==
  IF noteDetail.cvssScore /\ noteDetail.cvssVector # NoVector
  THEN noteDetail
  ELSE LET cvssData == ExtractCvssFromPage(d)
       IN IF cvssData.cvssScore \/ cvssData.cvssVector # NoVector
          THEN [noteDetail EXCEPT !.cvssScore = cvssData.cvssScore,
                                  !.cvssVector = cvssData.cvssVector]
          ELSE noteDetail

\* the SapNoteDetail of mapToSapNoteDetail (id, cvssScore, cvssVector)
MapToSapNoteDetailFields(d) ==
  LET c == ExtractCvssFromContent(d)
  IN [id |-> OrStr(d.idField, d.noteId),
      cvssScore |-> d.fieldScore \/ c.cvssScore,
      cvssVector |-> OrVec(d.fieldVector, c.cvssVector)]

\* the SapNoteDetail of the JSON branch of parseRawNoteDetail, taken when
\* the answer has SapNote / id / noteId
ParseRawNoteDetailFields(d) ==
  LET c == ExtractCvssFromContent(d)
  IN [id |-> OrStr(d.idField, d.noteId),
      cvssScore |-> d.fieldScore \/ c.cvssScore,
      cvssVector |-> OrVec(d.fieldVector, c.cvssVector)]

\* the SapNoteDetail of parseHtmlForNoteDetail
ParseHtmlForNoteDetailFields(d) ==
  LET c == ExtractCvssFromContent(d)
  IN [id |-> d.noteId, cvssScore |-> c.cvssScore, cvssVector |-> c.cvssVector]

\* getNoteWithPlaywright, answer with Response.SAPNote
PlaywrightSapNoteFields(d) ==
  LET c == ExtractCvssFromContent(d)
      noteDetail == [id |-> OrStr(d.idField, d.noteId),
                     cvssScore |-> d.fieldScore \/ c.cvssScore,
                     cvssVector |-> OrVec(d.fieldVector, c.cvssVector)]
  IN IF ~noteDetail.cvssScore \/ noteDetail.cvssVector = NoVector
     THEN EnhanceWithCvssFromTab(noteDetail, d)
     ELSE noteDetail

\* getNoteWithPlaywright, any other JSON answer
PlaywrightJsonFields(d) ==
  LET c == ExtractCvssFromContent(d)
  IN EnhanceWithCvssFromTab([id |-> OrStr(d.idField, d.noteId),
                             cvssScore |-> c.cvssScore,
                             cvssVector |-> c.cvssVector], d)

\* getNoteWithPlaywright, note data extracted from the HTML of the page
PlaywrightHtmlFields(d) ==
  LET c == ExtractCvssFromContent(d)
  IN EnhanceWithCvssFromTab([id |-> d.noteId, cvssScore |-> c.cvssScore,
                             cvssVector |-> c.cvssVector], d)

NoRec == [by |-> "none", id |-> "", cvssScore |-> FALSE, cvssVector |-> NoVector]
Built(by, f) ==
  [by |-> by, id |-> f.id, cvssScore |-> f.cvssScore, cvssVector |-> f.cvssVector]

parseFrame == UNCHANGED <<now, ticks, authVars, browser, browserContext, browserLastUsed,
                          openB, req, get, backend, doc, srch, mint, td, http>>

\* the record of one of the parsers is built from the answer and returned
\* by getNote
ParseMap ==
  /\ rec = NoRec
  /\ rec' = Built("mapToSapNoteDetail", MapToSapNoteDetailFields(doc))
  /\ parseFrame

ParseRaw ==
  /\ rec = NoRec
  /\ doc.idField # ""
  /\ rec' = Built("parseRawNoteDetail", ParseRawNoteDetailFields(doc))
  /\ parseFrame

ParseHtml ==
  /\ rec = NoRec
  /\ rec' = Built("parseHtmlForNoteDetail", ParseHtmlForNoteDetailFields(doc))
  /\ parseFrame

ParsePlaywrightSapNote ==
  /\ rec = NoRec
  /\ rec' = Built("playwrightSapNote", PlaywrightSapNoteFields(doc))
  /\ parseFrame

ParsePlaywrightJson ==
  /\ rec = NoRec
  /\ rec' = Built("playwrightJson", PlaywrightJsonFields(doc))
  /\ parseFrame

ParsePlaywrightHtml ==
  /\ rec = NoRec
  /\ rec' = Built("playwrightHtml", PlaywrightHtmlFields(doc))
  /\ parseFrame

\* no record is parsed
InitParseIdle ==
  /\ rec = NoRec
  /\ doc = [noteId |-> "1111111", idField |-> "", fieldVector |-> NoVector,
            fieldScore |-> FALSE, textVector |-> NoVector, textScore |-> FALSE,
            tabMetrics |-> NoVector, tabScore |-> FALSE]

(* ------------------------ affected components ------------------------- *)
\* most rows of SupportPackage.Items
MaxRows == 3

\* the text of a row by the classes of its characters: "A" for [A-Z_], "d"
\* for a digit, " " for white space, "a" for any other character
RowTexts ==
  { <<"A", " ", "d">>, <<"A", "d", " ", " ", "d", "d">>, <<"d", " ", "d">>,
    <<"a", " ", "d">>, <<"A", " ", "d", "a">>, <<"A", " ", "d", " ">>,
    <<" ", "A", " ", "d">>, <<"A", "d">>, <<"A", " ", "d", " ", "d">> }

\* item.SoftwareComponentVersion: a string, absent, or a value of the JSON
\* answer that is no string (a number, an object)
RowValues ==
  {[type |-> "string", text |-> t] : t \in RowTexts}
    \cup {[type |-> "undefined", text |-> <<>>], [type |-> "number", text |-> <<>>]}

Rows == [SoftwareComponentVersion : RowValues, SupportPackage : {"", "SAPK"}]

NoMatch == [component |-> <<>>, version |-> <<>>]

\* text.match(/^([A-Z0-9_]+)\s+(\d+)$/): the groups, or NoMatch for null
Match(text) ==
  LET n == Len(text)
      run(from, class) ==
        CHOOSE k \in 0..n :
          /\ \A j \in from..(from + k - 1) : j <= n /\ text[j] \in class
          /\ from + k <= n => text[from + k] \notin class
      c == run(1, {"A", "d"})
      w == run(c + 1, {" "})
  IN IF c >= 1 /\ w >= 1 /\ c + w < n /\ \A j \in (c + w + 1)..n : text[j] = "d"
     THEN [component |-> SubSeq(text, 1, c), version |-> SubSeq(text, c + w + 1, n)]
     ELSE NoMatch

RECURSIVE ComponentLoop(_, _)
\* the loop over the rows: (x || '').match of a value that is no string
\* throws, and the catch block around the loop returns what was pushed
ComponentLoop(items, versions) ==
  IF items = <<>> THEN versions
  ELSE LET item == Head(items)
           componentVersion ==
             IF item.SoftwareComponentVersion.type = "undefined"
             THEN [type |-> "string", text |-> <<>>]
             ELSE item.SoftwareComponentVersion
       IN IF componentVersion.type # "string" THEN versions
          ELSE LET match == Match(componentVersion.text)
               IN ComponentLoop(Tail(items),
                    IF match # NoMatch
                    THEN Append(versions, [component |-> match.component,
                                           version |-> match.version,
                                           supportPackage |-> item.SupportPackage])
                    ELSE versions)

ExtractSoftwareComponents(items) == ComponentLoop(items, <<>>)

\* affectedVersions.length > 0 ? affectedVersions : undefined
AffectedVersions(items) ==
  LET affectedVersions == ExtractSoftwareComponents(items)
  IN [defined |-> Len(affectedVersions) > 0, list |-> affectedVersions]

\* the answers with Response.SAPNote, by their rows
ComponentDocs ==
  [noteId : {"1111111"},
   items : UNION {[1..n -> Rows] : n \in 0..MaxRows}]

\* the affectedVersions of the noteDetail getNoteWithPlaywright builds
ParseComponents ==
  /\ rec = NoRec
  /\ rec' = [by |-> "affectedVersions", affectedVersions |-> AffectedVersions(doc.items)]
  /\ parseFrame

(* -------------------- searchNotes: one call, with its data ------------- *)
\* most items an endpoint answers with
MaxItems == 2

\* a query is its sequence of characters, by class: digit, letter, blank
Digits(n) == [k \in 1..n |-> "d"]
Queries ==
  {Digits(5), Digits(6), Digits(8), Digits(9), Digits(6) \o <<"a">>,
   <<" ">> \o Digits(7) \o <<" ">>, <<"a", "b">>}

\* String.prototype.trim
RECURSIVE TrimStart(_)
TrimStart(s) == IF s # <<>> /\ Head(s) = " " THEN TrimStart(Tail(s)) ELSE s
RECURSIVE TrimEnd(_)
TrimEnd(s) ==
  IF s # <<>> /\ s[Len(s)] = " " THEN TrimEnd(SubSeq(s, 1, Len(s) - 1)) ELSE s
Trim(s) == TrimEnd(TrimStart(s))

\* /^\d{6,8}$/.test(s)
IsNoteId(s) == Len(s) \in 6..8 /\ \A k \in 1..Len(s) : s[k] = "d"

\* the endpoints of searchViaInternalAPI, in list order
searchEndpoints == <<"knowledge/search", "support/search", "backend/raw/sapnotes/Search">>

\* the identifier of a note an endpoint answers with
SomeNote == Digits(7)
Items(n) == [k \in 1..n |-> SomeNote]

\* Array.prototype.slice(0, n)
Slice(s, n) == SubSeq(s, 1, IF n < Len(s) THEN n ELSE Len(s))

\* the locals of the searchNotes call:
\*   tried         the strategies attempted so far, in order
\*   settled       how each of them ended, in the same order
\*   errorMessage  the message of the error of the primary search
\*   coveo         what the Coveo search has answered: status, number of
\*                 items of data.results, data.totalCount (0: absent)
\*   response      the SapNoteSearchResponse returned
\*   thrown        the message of the error thrown: the pieces of its template
\*                 literal, in order, each interpolation as "${name}"
NoResponse == [results |-> <<>>, totalResults |-> 0, query |-> <<>>]
NoAnswer == [status |-> "none", results |-> 0, totalCount |-> 0]
NewSearch ==
  [pc |-> "idle", query |-> <<>>, maxResults |-> 1, i |-> 0, tried |-> <<>>,
   settled |-> <<>>, errorMessage |-> "", coveo |-> NoAnswer, response |-> NoResponse,
   thrown |-> <<>>]

cascadeFrame == UNCHANGED <<now, ticks, authVars, browser, browserContext, browserLastUsed,
                            openB, req, get, backend, doc, rec, mint, td, http>>

\* searchViaInternalAPI from endpoint i on, up to its next await; past the
\* last endpoint it returns [] and searchNotes throws the message of
\* lines 184-187, wrapped by the outer catch (190-194)
NextSearchEndpoint(s, i) ==
  IF i <= Len(searchEndpoints)
  THEN [s EXCEPT !.pc = "internal", !.i = i, !.tried = Append(s.tried, searchEndpoints[i])]
  ELSE [s EXCEPT !.pc = "threw", !.i = 0,
                 !.thrown = <<"SAP Notes search failed: ",
                              "Search temporarily unavailable: Coveo search engine failed (",
                              "${errorMessage}",
                              ") and fallback search methods found no results.",
                              "If you have a specific SAP Note ID, use sap_note_get(id=",
                              "Try searching directly on https://me.sap.com/notes">>]

\* PrimaryCaught with the pattern /^\d{7,8}$/: a 6-digit note id is not fetched
PrimaryCaught_SevenDigits(s, msg) ==
  LET t == [s EXCEPT !.errorMessage = msg, !.settled = Append(s.settled, "failed")]
  IN IF IsNoteId(Trim(s.query)) /\ Len(Trim(s.query)) >= 7
     THEN [t EXCEPT !.pc = "fetch", !.tried = Append(s.tried, "getNote")]
     ELSE NextSearchEndpoint(t, 1)

\* the catch block of the primary search up to its next await: getNote for a
\* query that is a note id, else the first endpoint of searchViaInternalAPI
PrimaryCaught(s, msg) ==
  LET t == [s EXCEPT !.errorMessage = msg, !.settled = Append(s.settled, "failed")]
  IN IF IsNoteId(Trim(s.query))
     THEN [t EXCEPT !.pc = "fetch", !.tried = Append(s.tried, "getNote")]
     ELSE NextSearchEndpoint(t, 1)

\* searchNotes(query, token, maxResults) is called and awaits getCoveoToken
CascadeStart ==
  /\ srch.pc = "idle"
  /\ \E q \in Queries, m \in 1..MaxItems :
       srch' = [srch EXCEPT !.pc = "token", !.query = q, !.maxResults = m,
                            !.tried = <<"coveo">>]
  /\ cascadeFrame

\* getCoveoToken has settled: with a token the Coveo search is posted
CascadeToken ==
  /\ srch.pc = "token"
  /\ \E ok \in BOOLEAN :
       srch' = IF ok THEN [srch EXCEPT !.pc = "coveo"]
               ELSE PrimaryCaught(srch, "Coveo token extraction failed")
  /\ cascadeFrame

\* CascadePrimary taking an answer without results for a failure
CascadePrimary_EmptyFallsBack ==
  /\ srch.pc = "coveo"
  /\ \E ok \in BOOLEAN, n \in 0..MaxItems, total \in 0..MaxItems :
       srch' = IF ok /\ n > 0
               THEN [srch EXCEPT !.pc = "returned",
                       !.settled = Append(srch.settled, "ok"),
                       !.coveo = [status |-> "ok", results |-> n, totalCount |-> total],
                       !.response = [results |-> Items(n),
                                     totalResults |-> IF total # 0 THEN total ELSE n,
                                     query |-> srch.query]]
               ELSE IF ok
               THEN PrimaryCaught(
                      [srch EXCEPT !.coveo = [status |-> "ok", results |-> n,
                                              totalCount |-> total]], "no results")
               ELSE PrimaryCaught([srch EXCEPT !.coveo.status = "error"],
                                  "Coveo API returned status")
  /\ cascadeFrame

\* the Coveo search has settled: an ok answer with n items and totalCount
\* total (0: absent) is parsed and returned
CascadePrimary ==
  /\ srch.pc = "coveo"
  /\ \E ok \in BOOLEAN, n \in 0..MaxItems, total \in 0..MaxItems :
       srch' = IF ok
               THEN [srch EXCEPT !.pc = "returned",
                       !.settled = Append(srch.settled, "ok"),
                       !.coveo = [status |-> "ok", results |-> n, totalCount |-> total],
                       !.response = [results |-> Items(n),
                                     totalResults |-> IF total # 0 THEN total ELSE n,
                                     query |-> srch.query]]
               ELSE PrimaryCaught([srch EXCEPT !.coveo.status = "error"],
                                  "Coveo API returned status")
  /\ cascadeFrame

\* CascadeFetch without the return of line 142: the note is kept and the
\* internal search runs all the same
CascadeFetch_NoReturn ==
  /\ srch.pc = "fetch"
  /\ \E note \in BOOLEAN :
       srch' = IF note
               THEN NextSearchEndpoint(
                      [srch EXCEPT !.settled = Append(srch.settled, "ok"),
                         !.response = [results |-> <<Trim(srch.query)>>,
                                       totalResults |-> 1, query |-> srch.query]], 1)
               ELSE NextSearchEndpoint(
                      [srch EXCEPT !.settled = Append(srch.settled, "failed")], 1)
  /\ cascadeFrame

\* getNote(query.trim()) has settled: a note is wrapped as the one result
CascadeFetch ==
  /\ srch.pc = "fetch"
  /\ \E note \in BOOLEAN :
       srch' = IF note
               THEN [srch EXCEPT !.pc = "returned",
                       !.settled = Append(srch.settled, "ok"),
                       !.response = [results |-> <<Trim(srch.query)>>,
                                     totalResults |-> 1, query |-> srch.query]]
               ELSE NextSearchEndpoint(
                      [srch EXCEPT !.settled = Append(srch.settled, "failed")], 1)
  /\ cascadeFrame

\* the request to endpoint srch.i has settled: an ok answer with n > 0 parsed
\* results ends searchViaInternalAPI with results.slice(0, maxResults), and
\* searchNotes returns them when there are any
CascadeInternal ==
  /\ srch.pc = "internal"
  /\ \E ok \in BOOLEAN, n \in 0..MaxItems :
       srch' = IF ok /\ n > 0
               THEN LET fallbackResults == Slice(Items(n), srch.maxResults)
                        t == [srch EXCEPT !.settled = Append(srch.settled, "ok")]
                    IN IF Len(fallbackResults) > 0
                       THEN [t EXCEPT !.pc = "returned", !.i = 0,
                               !.response = [results |-> fallbackResults,
                                             totalResults |-> Len(fallbackResults),
                                             query |-> srch.query]]
                       ELSE NextSearchEndpoint(t, Len(searchEndpoints) + 1)
               ELSE NextSearchEndpoint(
                      [srch EXCEPT !.settled = Append(srch.settled, "failed")], srch.i + 1)
  /\ cascadeFrame

\* no such call is made
InitCascadeIdle == srch = NewSearch

(* ------------- getCoveoTokenWithPlaywright: one call, with its flag ---- *)
\* the browser this call launches, and the one an earlier call has left
NewBrowser == 1
EarlierBrowser == 2

\* coveoToken = null
NoCapture == [by |-> "none", id |-> 0]

\* what the listeners of lines 540-606 may do while the call awaits: the
\* request listener assigns the Bearer token of a request to coveo.com
\* ("header"), the response listener the member token of a CoveoToken
\* response ("body"); the page may send several, with one token or another
Listened ==
  LET events == {[by |-> b, id |-> i] : b \in {"header", "body"}, i \in {1, 2}}
  IN {<<>>} \cup {<<e>> : e \in events} \cup {<<d, e>> : d, e \in events}

\* coveoToken = token, as the listeners and the call do it: unconditionally
Assign(m, token) ==
  [m EXCEPT !.coveoToken = token,
            !.first = IF @ = NoCapture THEN token ELSE @]

RECURSIVE Capture(_, _)
\* the listeners run for the events of an await, in their order
Capture(m, events) ==
  IF events = <<>> THEN m ELSE Capture(Assign(m, Head(events)), Tail(events))

\* getCachedCookies: the member cookies of the cache file, [] when the file
\* is absent or has no such array
GetCachedCookies == IF cache.present THEN JsonMember(cache.text, "cookies", <<>>) ELSE <<>>

\* parseCookiesFromToken: the name=value pairs of the cookie string
ParseCookiesFromToken(token) == IF Truthy(token) THEN <<Cookie(token.id)>> ELSE <<>>

\* the locals of the call:
\*   sapToken              the argument: the credential ensureAuthenticated
\*                         has returned to the request
\*   reused                the branch of line 516 was taken: no browser is
\*                         launched
\*   cookies               the cookies to be added to the new context
\*   injected              the cookies addCookies has put into it
\*   page                  "null", "open" or "closed"
\*   wasRedirectedToLogin  the flag of the response listener (lines 527-535)
\*   coveoToken            the local of line 537: null, or the token last
\*                         assigned, with the path that assigned it
\*   first                 the first token assigned to coveoToken
\*   out                   how the call ends: "token" (coveoToken is
\*                         returned), "SESSION_EXPIRED" or "failed" ('Failed
\*                         to get Coveo bearer token: ...')
\*   t0                    the local `now`, until its last read
NewMint ==
  [pc |-> "idle", sapToken |-> NoToken, reused |-> FALSE, cookies |-> <<>>,
   injected |-> <<>>, t0 |-> 0, page |-> "null", wasRedirectedToLogin |-> FALSE,
   coveoToken |-> NoCapture, first |-> NoCapture, out |-> "none"]

mintFrame == UNCHANGED <<now, ticks, authVars, req, get, backend, doc, rec, srch, td, http>>

\* the catch block for an error other than 'Session expired', then finally
PwFail(m) ==
  [m EXCEPT !.out = "failed", !.t0 = 0, !.pc = IF m.page # "null" THEN "finally" ELSE "done"]

\* the token is returned: finally closes the page
PwToken(m) == [m EXCEPT !.out = "token", !.pc = "finally"]

\* PwAfterIdleCheck launching a browser whatever this.browser is
PwAfterIdleCheck_AlwaysLaunches(br) ==
  /\ mint' = [mint EXCEPT !.pc = "launching", !.t0 = now, !.sapToken = authState.token]
  /\ UNCHANGED browserLastUsed

\* lines 448-521 once the idle check is over, as AfterIdleCheck
PwAfterIdleCheck(br) ==
  IF br = 0 \/ br \notin openB
  THEN /\ mint' = [mint EXCEPT !.pc = "launching", !.t0 = now, !.sapToken = authState.token]
       /\ UNCHANGED browserLastUsed
  ELSE /\ browserLastUsed' = now
       /\ mint' = [mint EXCEPT !.pc = "newpage", !.reused = TRUE,
                               !.sapToken = authState.token]

\* the call starts, with the credential ensureAuthenticated has just
\* returned, and runs up to its first await
PwStart ==
  /\ mint.pc = "idle"
  /\ IF browser # 0 /\ now - browserLastUsed > BROWSER_IDLE_TIMEOUT
     THEN /\ openB' = openB \ {browser}
          /\ mint' = [mint EXCEPT !.pc = "closing", !.t0 = now,
                                  !.sapToken = authState.token]
          /\ UNCHANGED browserLastUsed
     ELSE /\ PwAfterIdleCheck(browser)
          /\ UNCHANGED openB
  /\ UNCHANGED <<browser, browserContext>>
  /\ mintFrame

\* close() of the idle browser has completed
PwClosed ==
  /\ mint.pc = "closing"
  /\ browser' = 0
  /\ browserContext' = 0
  /\ mint' = [mint EXCEPT !.pc = "launching"]
  /\ UNCHANGED <<browserLastUsed, openB>>
  /\ mintFrame

\* chromium.launch has settled
PwLaunched ==
  /\ mint.pc = "launching"
  /\ \E ok \in BOOLEAN :
       IF ok
       THEN /\ browser' = NewBrowser
            /\ openB' = openB \cup {NewBrowser}
            /\ mint' = [mint EXCEPT !.pc = "newctx"]
       ELSE /\ mint' = PwFail(mint)
            /\ UNCHANGED <<browser, openB>>
  /\ UNCHANGED <<browserContext, browserLastUsed>>
  /\ mintFrame

\* newContext has settled; on success getCachedCookies is awaited
PwContext ==
  /\ mint.pc = "newctx"
  /\ \E ok \in BOOLEAN :
       IF ok
       THEN /\ browserContext' = browser
            /\ mint' = [mint EXCEPT !.pc = "cookies"]
       ELSE /\ mint' = PwFail(mint)
            /\ UNCHANGED browserContext
  /\ UNCHANGED <<browser, browserLastUsed, openB>>
  /\ mintFrame

\* getCachedCookies has settled: its cookies, when there are any, else those
\* parsed from sapToken, are added to this.browserContext; with neither,
\* browserLastUsed is set and newPage is called
PwCookies ==
  /\ mint.pc = "cookies"
  /\ LET cookies == GetCachedCookies
         toAdd == IF Len(cookies) > 0 THEN cookies ELSE ParseCookiesFromToken(mint.sapToken)
     IN IF Len(toAdd) > 0
        THEN /\ mint' = [mint EXCEPT !.pc = "addcookies", !.cookies = toAdd]
             /\ UNCHANGED browserLastUsed
        ELSE /\ browserLastUsed' = mint.t0
             /\ mint' = [mint EXCEPT !.pc = "newpage", !.t0 = 0]
  /\ UNCHANGED <<browser, browserContext, openB>>
  /\ mintFrame

\* addCookies has settled; on success browserLastUsed is set to the `now` of
\* line 440 and newPage is called
PwAddCookies ==
  /\ mint.pc = "addcookies"
  /\ \E ok \in BOOLEAN :
       IF ok
       THEN /\ browserLastUsed' = mint.t0
            /\ mint' = [mint EXCEPT !.pc = "newpage", !.t0 = 0, !.cookies = <<>>,
                                    !.injected = mint.cookies]
       ELSE /\ mint' = PwFail([mint EXCEPT !.cookies = <<>>])
            /\ UNCHANGED browserLastUsed
  /\ UNCHANGED <<browser, browserContext, openB>>
  /\ mintFrame

\* newPage has settled; with a page the listeners are attached and
\* page.goto(home) is called
PwPage ==
  /\ mint.pc = "newpage"
  /\ \E ok \in BOOLEAN :
       mint' = IF ok /\ browserContext \in openB
               THEN [mint EXCEPT !.pc = "home", !.page = "open"]
               ELSE PwFail(mint)
  /\ UNCHANGED <<browser, browserContext, browserLastUsed, openB>>
  /\ mintFrame

\* page.goto(home) has settled, the listener having seen a response of a
\* login page or not.  The flag is read (line 625): when set, 'Session
\* expired' is thrown and the catch block closes this.browser.  Else the
\* page is inspected and, without a captured token, navigated to the search
\* page.
PwHome ==
  /\ mint.pc = "home"
  /\ \E redirected \in BOOLEAN, events \in Listened :
       IF redirected
       THEN /\ openB' = openB \ {browser}
            /\ mint' = [mint EXCEPT !.wasRedirectedToLogin = TRUE,
                                    !.pc = IF browser # 0 THEN "expclose" ELSE "finally",
                                    !.out = "SESSION_EXPIRED"]
       ELSE /\ UNCHANGED openB
            /\ LET m == Capture(mint, events)
               IN mint' = IF m.coveoToken # NoCapture
                          THEN PwToken(m)
                          ELSE [m EXCEPT !.pc = "search"]
  /\ UNCHANGED <<browser, browserContext, browserLastUsed>>
  /\ mintFrame

\* the navigation to the search page and the 5 s wait are over (errors are
\* caught), the listener having seen a response of a login page or not
PwSearch ==
  /\ mint.pc = "search"
  /\ \E redirected \in BOOLEAN, events \in Listened :
       LET m == Capture([mint EXCEPT !.wasRedirectedToLogin = redirected], events)
       IN mint' = IF m.coveoToken # NoCapture THEN PwToken(m) ELSE [m EXCEPT !.pc = "hybrid"]
  /\ UNCHANGED <<browser, browserContext, browserLastUsed, openB>>
  /\ mintFrame

\* the in-page fetch has settled (an error is caught) with a token or with
\* none (0), the listeners having seen a response of a login page or not,
\* and requests and responses of the page; a token the fetch returns is
\* assigned, and with a token the call returns
PwHybrid ==
  /\ mint.pc = "hybrid"
  /\ \E redirected \in BOOLEAN, events \in Listened, browserToken \in {0, 1, 2} :
       LET l == Capture([mint EXCEPT !.wasRedirectedToLogin = @ \/ redirected], events)
           m == IF browserToken # 0
                THEN Assign(l, [by |-> "script", id |-> browserToken])
                ELSE l
       IN mint' = IF m.coveoToken # NoCapture THEN PwToken(m) ELSE [m EXCEPT !.pc = "pagejs"]
  /\ UNCHANGED <<browser, browserContext, browserLastUsed, openB>>
  /\ mintFrame

\* the inspection of window and storage has settled, the listeners having
\* seen requests and responses of the page: it has thrown, or a token it has
\* found is assigned; with a token the call returns, else 'Unable to extract
\* Coveo token from SAP search page'
PwPageJs ==
  /\ mint.pc = "pagejs"
  /\ \E events \in Listened, ok \in BOOLEAN, found \in {0, 1, 2} :
       LET l == Capture(mint, events)
           m == IF found # 0 THEN Assign(l, [by |-> "storage", id |-> found]) ELSE l
       IN mint' = IF ok /\ m.coveoToken # NoCapture THEN PwToken(m) ELSE PwFail(l)
  /\ UNCHANGED <<browser, browserContext, browserLastUsed, openB>>
  /\ mintFrame

\* close() of the browser of an expired session has completed
PwExpClosed ==
  /\ mint.pc = "expclose"
  /\ browser' = 0
  /\ browserContext' = 0
  /\ mint' = [mint EXCEPT !.pc = "finally"]
  /\ UNCHANGED <<browserLastUsed, openB>>
  /\ mintFrame

\* page.close() of finally has settled (an error is caught): the call ends
PwFinally ==
  /\ mint.pc = "finally"
  /\ mint' = [mint EXCEPT !.pc = "done", !.page = "closed"]
  /\ UNCHANGED <<browser, browserContext, browserLastUsed, openB>>
  /\ mintFrame

\* no such call is made
InitMintIdle == mint = NewMint

(* ------------------------- HTTP server: /mcp --------------------------- *)
\* String.prototype.split(' ')
RECURSIVE Split(_)
Split(s) ==
  IF \A k \in 1..Len(s) : s[k] # " "
  THEN <<s>>
  ELSE LET k == CHOOSE i \in 1..Len(s) : s[i] = " " /\ \A j \in 1..(i - 1) : s[j] # " "
       IN <<SubSeq(s, 1, k - 1)>> \o Split(SubSeq(s, k + 1, Len(s)))

\* a value in a condition: undefined and '' are falsy
Given(v) == v.defined /\ v.text # <<>>

\* the token authMiddleware takes from the headers
HeaderToken(bearerHeader, authHeader) ==
  IF Given(bearerHeader)
  THEN bearerHeader
  ELSE IF Given(authHeader)
  THEN LET parts == Split(authHeader.text)
       IN IF Len(parts) = 2 /\ parts[1] = <<"Bearer">> THEN Str(parts[2]) ELSE Undefined
  ELSE Undefined

\* AuthMiddleware letting every token through that the headers hold
AuthMiddleware_NoCompare(accessToken, bearerHeader, authHeader) ==
  LET token == HeaderToken(bearerHeader, authHeader)
  IN IF ~Given(accessToken) \/ Trim(accessToken.text) = <<>>
     THEN "next"
     ELSE IF ~Given(token)
     THEN "401"
     ELSE "next"

\* authMiddleware: next() is called, or 401 is sent
AuthMiddleware(accessToken, bearerHeader, authHeader) ==
  LET token == HeaderToken(bearerHeader, authHeader)
  IN IF ~Given(accessToken) \/ Trim(accessToken.text) = <<>>
     THEN "next"
     ELSE IF ~Given(token)
     THEN "401"
     ELSE IF token # accessToken
     THEN "401"
     ELSE "next"

AccessTokens ==
  {Undefined, Str(<<>>), Str(<<" ">>), Str(<<"t">>), Str(<<"t", " ", "x">>)}
BearerHeaders == {Undefined, Str(<<>>), Str(<<"t">>), Str(<<"x">>), Str(<<"t", " ", "x">>)}
AuthorizationHeaders ==
  {Undefined, Str(<<"Bearer", " ", "t">>), Str(<<"Bearer", " ", "x">>),
   Str(<<"bearer", " ", "t">>), Str(<<"Bearer", " ", " ", "t">>), Str(<<"t">>),
   Str(<<"Bearer", " ">>), Str(<<"Bearer", " ", "t", " ", "x">>)}

httpFrame == UNCHANGED <<now, ticks, authVars, browser, browserContext, browserLastUsed,
                         openB, req, get, backend, doc, rec, srch, mint, td>>

\* start(): the server listens, in a process with ACCESS_TOKEN as its
\* environment has it
HttpStart ==
  /\ ~http.listening
  /\ \E accessToken \in AccessTokens :
       http' = [http EXCEPT !.listening = TRUE, !.accessToken = accessToken]
  /\ httpFrame

\* a GET, POST or DELETE request to /mcp goes through the middleware of
\* setupMiddleware and the route: express.json() parses a JSON body, and a
\* body it cannot parse is answered 400 by the error handler of express;
\* then authMiddleware, then mcpHandler
McpRequest ==
  /\ http.listening
  /\ \E method \in {"GET", "POST", "DELETE"}, bearerHeader \in BearerHeaders,
        authHeader \in AuthorizationHeaders, body \in {"none", "json", "malformed"} :
       LET passed == AuthMiddleware(http.accessToken, bearerHeader, authHeader)
       IN http' = [http EXCEPT
                     !.requests = 1, !.method = method, !.bearer = bearerHeader,
                     !.authorization = authHeader, !.body = body,
                     !.status = IF body = "malformed" THEN 400
                                ELSE IF passed = "401" THEN 401 ELSE 0,
                     !.reached = body # "malformed" /\ passed = "next"]
  /\ httpFrame

\* an OPTIONS request to /mcp: the route answers 200, without authMiddleware
McpPreflight ==
  /\ http.listening
  /\ \E bearerHeader \in BearerHeaders, authHeader \in AuthorizationHeaders :
       http' = [http EXCEPT
                  !.requests = 1, !.method = "OPTIONS", !.bearer = bearerHeader,
                  !.authorization = authHeader, !.body = "none", !.status = 200,
                  !.reached = FALSE]
  /\ httpFrame

(* ---------------------------- specifications --------------------------- *)
Init == InitAuth /\ InitClient /\ InitGet /\ InitParseIdle /\ InitCascadeIdle /\ InitMintIdle

Next ==
  \/ \E p \in Callers : Call(p)
  \/ \E p \in Callers : Resume(p)
  \/ \E f \in Flows : FlowLaunch(f)
  \/ \E f \in Flows : FlowNav(f)
  \/ \E f \in Flows : FlowCookies(f)
  \/ \E f \in Flows : FlowCleanup(f)
  \/ InvalidateAuth
  \/ Tick

Spec == Init /\ [][Next]_vars


\* the authenticator up to and after its teardown, with tokens that live
\* for an hour
InitDestroy == Init /\ maxJwtAgeH = 1

NextDestroy ==
  \/ \E p \in Callers : Call(p)
  \/ \E p \in Callers : Resume(p)
  \/ \E f \in Flows : FlowLaunch(f)
  \/ \E f \in Flows : FlowNav(f)
  \/ \E f \in Flows : FlowCookies(f)
  \/ \E f \in Flows : FlowCleanup(f)
  \/ Tick
  \/ Destroy
  \/ DestroyClosed

SpecDestroy == InitDestroy /\ [][NextDestroy]_vars

\* the shutdown of either server, at any moment of the authenticator, the
\* client holding no persistent browser or the one an earlier token mint
\* has left, connected or not
InitShutdown ==
  /\ InitAuth
  /\ maxJwtAgeH = 1
  /\ cache = NoFile
  /\ \/ browser = 0 /\ browserContext = 0 /\ openB = {} /\ browserLastUsed = 0
     \/ /\ browser = EarlierBrowser
        /\ browserContext = EarlierBrowser
        /\ openB \in {{}, {EarlierBrowser}}
        /\ browserLastUsed = StartMs
  /\ req = [r \in Requests |-> NewRequest]
  /\ InitGet
  /\ InitParseIdle
  /\ InitCascadeIdle
  /\ InitMintIdle

NextShutdown ==
  \/ \E p \in Callers : Call(p)
  \/ \E p \in Callers : Resume(p)
  \/ \E f \in Flows : FlowLaunch(f)
  \/ \E f \in Flows : FlowNav(f)
  \/ \E f \in Flows : FlowCookies(f)
  \/ \E f \in Flows : FlowCleanup(f)
  \/ Shutdown
  \/ ShutdownStopped
  \/ ShutdownCleaned
  \/ ShutdownDestroy
  \/ DestroyClosed

SpecShutdown == InitShutdown /\ [][NextShutdown]_vars


\* the requests of the tool layer: ensureAuthenticated has returned the held
\* credential and searchNotes runs with it
InitHolding(token, file) ==
  /\ td = NewTeardown
  /\ http = NewHttp
  /\ now = StartMs
  /\ ticks = 0
  /\ maxJwtAgeH = 1
  /\ authState = [token |-> token, expiresAt |-> StartMs + HourMs,
                  isAuthenticated |-> TRUE]
  /\ authPromise = 0
  /\ authBrowser = 0
  /\ loginOpen = {}
  /\ cache = file
  /\ flow = [f \in Flows |-> NewFlow("unused")]
  /\ nextFlow = 1
  /\ wq = [f \in Flows |-> <<>>]
  /\ runq = <<>>
  /\ pc = [p \in Callers |-> "idle"]
  /\ awaited = [p \in Callers |-> 0]
  /\ invalidations = 0
  /\ invalidated = {}
  /\ firstAfter = 0

\* the credential held is the one an earlier run has left in the cache file
InitHeld == InitHolding(PrevToken, PrevFile(StartMs + HourMs))

\* the credential held and the cache file after authenticate() has returned:
\* the credential adopted from the file, or the one of a login, which has
\* written the file or, its write having failed, left it as it was: absent,
\* or with the credential of an earlier run that has expired; a login that
\* has read no cookie holds the empty string
HeldAndFile ==
  { <<PrevToken, PrevFile(StartMs + HourMs)>>,
    <<FlowToken(1), SaveCachedToken([access_token |-> FlowToken(1),
                                     cookies |-> <<Cookie(1)>>,
                                     expiresAt |-> StartMs + HourMs])>>,
    <<FlowToken(1), NoFile>>,
    <<FlowToken(1), PrevFile(StartMs - HourMs)>>,
    <<EmptyToken, SaveCachedToken([access_token |-> EmptyToken, cookies |-> <<>>,
                                   expiresAt |-> StartMs + HourMs])>> }

InitSearch == InitHeld /\ InitClient /\ InitGet /\ InitParseIdle /\ InitCascadeIdle /\ InitMintIdle

NextSearch ==
  \/ \E r \in Requests : StartSearch(r)
  \/ \E r \in Requests : DirectDone(r)
  \/ \E r \in Requests : MintClosed(r)
  \/ \E r \in Requests : MintLaunched(r)
  \/ \E r \in Requests : MintContext(r)
  \/ \E r \in Requests : MintCookies(r)
  \/ \E r \in Requests : MintAddCookies(r)
  \/ \E r \in Requests : MintPage(r)
  \/ \E r \in Requests : MintHome(r)
  \/ \E r \in Requests : MintSearch(r)
  \/ \E r \in Requests : MintHybrid(r)
  \/ \E r \in Requests : MintPageJs(r)
  \/ \E r \in Requests : MintExpClosed(r)
  \/ \E r \in Requests : MintPageClosed(r)
  \/ \E r \in Requests : CoveoDone(r)
  \/ \E r \in Requests : Fallback1Done(r)
  \/ \E r \in Requests : Fallback2Done(r)
  \/ Tick

SpecSearch == InitSearch /\ [][NextSearch]_vars


\* one getNote call of the tool layer, for an identifier that the endpoints
\* answer in any of the ways they can
InitFetch ==
  /\ InitHeld
  /\ InitClient
  /\ get = NewGet
  /\ backend \in Backends
  /\ InitParseIdle
  /\ InitCascadeIdle
  /\ InitMintIdle

NextFetch ==
  \/ GetNote
  \/ NotePwSetup
  \/ NotePwBody
  \/ NotePwFinally
  \/ PlaywrightDone
  \/ RawDone
  \/ FallbackDone

SpecFetch == InitFetch /\ [][NextFetch]_vars


\* the parsers of note details, each on any answer
InitParse ==
  /\ InitHeld
  /\ InitClient
  /\ InitGet
  /\ rec = NoRec
  /\ doc \in Docs
  /\ InitCascadeIdle
  /\ InitMintIdle

NextParse ==
  \/ ParseMap
  \/ ParseRaw
  \/ ParseHtml
  \/ ParsePlaywrightSapNote
  \/ ParsePlaywrightJson
  \/ ParsePlaywrightHtml

SpecParse == InitParse /\ [][NextParse]_vars

\* the extraction of the affected components, on any rows
InitComponents ==
  /\ InitHeld
  /\ InitClient
  /\ InitGet
  /\ rec = NoRec
  /\ doc \in ComponentDocs
  /\ InitCascadeIdle
  /\ InitMintIdle

NextComponents == ParseComponents

SpecComponents == InitComponents /\ [][NextComponents]_vars


\* one searchNotes call of the tool layer, for any query and any answers
InitCascade ==
  InitHeld /\ InitClient /\ InitGet /\ InitParseIdle /\ srch = NewSearch /\ InitMintIdle

NextCascade ==
  \/ CascadeStart
  \/ CascadeToken
  \/ CascadePrimary
  \/ CascadeFetch
  \/ CascadeInternal

SpecCascade == InitCascade /\ [][NextCascade]_vars


\* one getCoveoTokenWithPlaywright call at any time of the day: with no
\* browser left by an earlier call, or with one, connected or not, used
\* just now or an hour ago
InitMint ==
  /\ \E h \in HeldAndFile : InitHolding(h[1], h[2])
  /\ req = [r \in Requests |-> NewRequest]
  /\ InitGet
  /\ InitParseIdle
  /\ InitCascadeIdle
  /\ mint = NewMint
  /\ \/ browser = 0 /\ browserContext = 0 /\ openB = {} /\ browserLastUsed = 0
     \/ /\ browser = EarlierBrowser
        /\ browserContext = EarlierBrowser
        /\ openB \in {{}, {EarlierBrowser}}
        /\ browserLastUsed \in {StartMs, StartMs - HourMs}

NextMint ==
  \/ PwStart
  \/ PwClosed
  \/ PwLaunched
  \/ PwContext
  \/ PwCookies
  \/ PwAddCookies
  \/ PwPage
  \/ PwHome
  \/ PwSearch
  \/ PwHybrid
  \/ PwPageJs
  \/ PwExpClosed
  \/ PwFinally
  \/ Tick

SpecMint == InitMint /\ [][NextMint]_vars

\* the steps of a call that has started: each is the continuation of an
\* await that has settled
MintContinues ==
  \/ PwClosed
  \/ PwLaunched
  \/ PwContext
  \/ PwCookies
  \/ PwAddCookies
  \/ PwPage
  \/ PwHome
  \/ PwSearch
  \/ PwHybrid
  \/ PwPageJs
  \/ PwExpClosed
  \/ PwFinally

\* the same call under the scheduling of the event loop: a continuation
\* that is ready is run, and the clock advances; whether a request arrives
\* (PwStart) is left to the caller.  SapNotesApiClient registers no timer,
\* so nothing else is ever scheduled.
SpecMintFair ==
  InitMint /\ [][NextMint]_vars /\ WF_vars(MintContinues) /\ WF_vars(Tick)


\* one getCoveoTokenWithPlaywright call and one getNote call of the tool
\* layer side by side, the note's browser-rendered fetch answering in any
\* of its ways and its HTTP endpoints out of reach
InitRequests ==
  /\ InitHeld
  /\ req = [r \in Requests |-> NewRequest]
  /\ get = NewGet
  /\ backend \in {b \in Backends :
                    /\ b.raw = Unreachable
                    /\ \A e \in 1..Len(fallbackEndpoints) : b.fallback[e] = Unreachable}
  /\ InitParseIdle
  /\ InitCascadeIdle
  /\ mint = NewMint
  /\ \/ browser = 0 /\ browserContext = 0 /\ openB = {} /\ browserLastUsed = 0
     \/ /\ browser = EarlierBrowser
        /\ browserContext = EarlierBrowser
        /\ openB = {EarlierBrowser}
        /\ browserLastUsed \in {StartMs, StartMs - HourMs}

NextRequests ==
  \/ NextMint
  \/ NextFetch

SpecRequests == InitRequests /\ [][NextRequests]_vars


\* one searchNotes call and one getNote call of the tool layer side by side,
\* every strategy of either answering or failing
InitRetrieval ==
  /\ InitHeld
  /\ InitClient
  /\ get = NewGet
  /\ backend \in {b \in Backends :
                    \A a \in {b.raw} \cup {b.fallback[e] : e \in 1..Len(fallbackEndpoints)} :
                      a \in {[status |-> "ok", body |-> "json_d"], Unreachable}}
  /\ InitParseIdle
  /\ srch = NewSearch
  /\ InitMintIdle

NextRetrieval ==
  \/ NextCascade
  \/ NextFetch

SpecRetrieval == InitRetrieval /\ [][NextRetrieval]_vars

\* the HTTP server and the requests to /mcp
InitHttp == InitHeld /\ InitClient /\ InitGet /\ InitParseIdle /\ InitCascadeIdle /\ InitMintIdle

NextHttp ==
  \/ HttpStart
  \/ McpRequest
  \/ McpPreflight

SpecHttp == InitHttp /\ [][NextHttp]_vars

(* ------------------------- claims: Authenticator ----------------------- *)
\* a caller's call ends in this step by returning authState.token
Returns(p) == pc[p] # "done" /\ pc'[p] = "done"

\* a credential as the data model defines validity: non-empty and now < expiresAt - 5 minutes
CredentialValid(tok, expiresAt, t) == Truthy(tok) /\ t < expiresAt - bufferMs

\* this step invokes authenticate() and it goes past the cached token
StartsLogin ==
  nextFlow' = nextFlow + 1 /\ flow'[nextFlow].phase \in {"launch", "cleanup", "rejected"}

\* C1: at most one login flow is in flight at any time, and a caller that
\* found a login in flight never starts a login flow of its own (one flow
\* per batch of concurrent callers).
C1_SingleFlight ==
  /\ [](Cardinality(InFlight) <= 1)
  /\ [][\A p \in Callers : pc[p] = "wait59" => ~(pc'[p] = "own69" /\ StartsLogin)]_vars

\* C2: after a login attempt has failed, a caller that calls afterwards is
\* never handed that earlier failure: it does not fail on the promise it
\* found already settled.
C2_FailureNotReplayed ==
  [][\A p \in Callers : pc[p] = "wait59s" => pc'[p] # "failed"]_vars

\* C3: the first call after invalidateAuth() never returns a credential that
\* was obtained before the invalidation.
C3_FreshAfterInvalidate ==
  [][\A p \in Callers : (p = firstAfter /\ Returns(p)) => authState.token \notin invalidated]_vars

\* C5: a call issued while no login is in flight reuses the held or the
\* persisted credential, starting no login, exactly when that credential has
\* expiresAt - now > 5 minutes; when neither has, the call starts a login.
C5_ReuseIffOutsideBuffer ==
  [][\A p \in Callers :
       (pc[p] = "idle" /\ pc'[p] # "idle" /\ InFlight = {}) =>
          LET heldOk == CredentialValid(authState.token, authState.expiresAt, now)
              persistedOk == cache.present
                               /\ CredentialValid(LoadCachedToken.access_token,
                                                  LoadCachedToken.expiresAt, now)
          IN IF heldOk \/ persistedOk
             THEN ~StartsLogin /\ pc'[p] \in {"done", "own69"}
             ELSE StartsLogin]_vars

\* C6: every credential returned by ensureAuthenticated is valid when it is
\* returned: non-empty and now < expiresAt - 5 minutes.
C6_ReturnedCredentialValid ==
  [][\A p \in Callers :
       Returns(p) => CredentialValid(authState.token, authState.expiresAt, now)]_vars

\* C7: a caller that found a login flow in flight ends with the outcome of
\* that flow: it fails when the flow failed and returns the credential that
\* flow produced when it succeeded.
C7_WaiterGetsFlowOutcome ==
  [][\A p \in Callers :
       (pc[p] = "wait59" /\ pc'[p] # "wait59") =>
          IF flow[awaited[p]].phase = "rejected"
          THEN pc'[p] = "failed"
          ELSE pc'[p] = "done" /\ authState.token = FlowToken(awaited[p])]_vars

(* ----------------------- claims: token mint, search -------------------- *)
\* request r takes a step
Steps(r) == req'[r] # req[r]

\* C4: when the token mint of a search ends with SessionExpired, the signal
\* is converted into an invalidation of the Authenticator (the step in which
\* searchNotes catches it invalidates), and the search does not end with an
\* error.
C4_SessionExpiredForcesRelogin ==
  [][\A r \in Requests :
       /\ (req[r].pc = "pageclose" /\ req[r].mout = "expired" /\ Steps(r))
            => invalidations' > invalidations
       /\ req[r].mout = "expired" => req'[r].pc # "threw"]_vars

\* C8: a token-mint request that goes on to use the shared browser (adds
\* cookies to its context, opens a page on it, reads, navigates or evaluates
\* on its page) finds that browser open: no other request has closed it in
\* the meantime.
C8_NoUseAfterClose ==
  [][\A r \in Requests :
       /\ (req[r].pc = "cookies" /\ Steps(r) /\ browserContext # 0)
            => browserContext \in openB
       /\ (req[r].pc = "addcookies" /\ Steps(r) /\ req[r].target \in openB
             /\ browserContext # 0) => browserContext \in openB
       /\ (req[r].pc \in {"home", "search", "hybrid"} /\ Steps(r)
             /\ req'[r].mout # "expired") => req[r].page \in openB]_vars

(* ---------------------------- claims: getNote -------------------------- *)
\* a strategy has no data for the identifier: the browser-rendered fetch
\* extracts nothing, an endpoint answers 404
PlaywrightNoData == backend.playwright = "null"
HttpNoData(ans) == ans.status = "notfound"

\* a strategy fails with an error: network failure, timeout, HTTP error
HttpError(ans) == ans.status \in {"error", "network"}

EveryStrategyNoData ==
  /\ PlaywrightNoData
  /\ HttpNoData(backend.raw)
  /\ \A e \in 1..Len(fallbackEndpoints) : HttpNoData(backend.fallback[e])

EveryStrategyFailed ==
  /\ backend.playwright = "throws"
  /\ HttpError(backend.raw)
  /\ \A e \in 1..Len(fallbackEndpoints) : HttpError(backend.fallback[e])

\* C9: when every strategy of the cascade has no data for the identifier
\* (the endpoints answer 404), getNote returns null.
C9_NoDataReturnsNull ==
  (get.pc = "returned" /\ EveryStrategyNoData) => get.result = Null

\* C10: a getNote call in which every strategy failed with an error does not
\* end with null, the outcome of a call that found nothing.
C10_FailureIsNotNull ==
  (get.pc = "returned" /\ EveryStrategyFailed) => get.result # Null

\* the strategies of getNote, in the order of the claim
GetStrategies == <<"playwright", "raw">> \o fallbackEndpoints

\* what strategy k yields for this backend when it is attempted: a record or
\* none (Null)
Yields(k) ==
  IF k = 1 THEN (IF backend.playwright = "note" THEN Note("record") ELSE Null)
  ELSE IF k = 2
  THEN (IF backend.raw.status = "ok"
        THEN ParseRawNoteDetail(backend.raw.body, get.isId) ELSE Null)
  ELSE (IF backend.fallback[k - 2].status \in {"ok", "notfound"}
        THEN ParseNoteResponse(backend.fallback[k - 2].body) ELSE Null)

\* C16: the strategies attempted are a prefix of playwright, raw HTTP GET,
\* fallback endpoints in list order; every strategy before the last one
\* attempted yielded no record; getNote returns what the last one attempted
\* yields, and null only when all were attempted.
C16_FetchOrder ==
  /\ Len(get.tried) <= Len(GetStrategies)
  /\ get.tried = SubSeq(GetStrategies, 1, Len(get.tried))
  /\ \A k \in 1..Len(get.tried) : \A j \in 1..(k - 1) : Yields(j) = Null
  /\ get.pc = "returned" =>
       /\ get.result = Yields(Len(get.tried))
       /\ get.result = Null => get.tried = GetStrategies

C16_Witness ==
  /\ get.pc = "returned"
  /\ get.tried = GetStrategies
  /\ get.result # Null

(* ------------------------ claims: note record fields ------------------ *)
\* C11: the id of every record a parser builds equals the requested
\* identifier, whatever identifier the answer carries.
C11_IdIsRequested == rec # NoRec => rec.id = doc.noteId

\* C12: the cvssVector of every record is absent or carries all 8 metrics.
C12_VectorFullOrAbsent == rec # NoRec => rec.cvssVector \in {NoVector, FullVector}

(* --------------------------- claims: token cache ----------------------- *)
\* authenticate() is invoked in this step: it loads the cache file
AuthenticateRuns == nextFlow' = nextFlow + 1

\* login flow f stores its credential in this step: saveCachedToken writes
\* the file
Persists(f) == flow[f].phase = "cookies" /\ flow'[f].phase # "cookies" /\ cache' # cache

\* this step adopts the credential c of the cache file as it is, leaves the
\* file alone and starts no login flow
Adopts(c) ==
  /\ authState' = [token |-> c.access_token, expiresAt |-> c.expiresAt,
                   isAuthenticated |-> TRUE]
  /\ cache' = cache
  /\ JsonParse(cache'.text).cookies = c.cookies
  /\ ~StartsLogin
  /\ authBrowser' = authBrowser /\ loginOpen' = loginOpen

\* what a reload of the file written in this step gives is the credential
\* of login flow f: its cookie string, its cookies, its expiresAt
ReloadsAsPersisted(f) ==
  LET c == JsonParse(cache'.text)
  IN /\ cache'.present
     /\ c.access_token = authState'.token
     /\ c.expiresAt = authState'.expiresAt /\ c.expiresAt = now + maxJwtAgeH * HourMs
     /\ c.cookies \in CookieSets(f)
     /\ CookieString(c.cookies) = c.access_token

\* C18 as stated: the credential a login has persisted reloads as it was
\* stored, and an authenticate() that loads it before its expiresAt adopts
\* it unchanged and starts no login flow.
C18_ReloadBeforeExpiryAdopted ==
  [][/\ \A f \in Flows : Persists(f) => ReloadsAsPersisted(f)
     /\ LET c == LoadCachedToken
        IN (AuthenticateRuns /\ cache.present /\ Truthy(c.access_token) /\ now < c.expiresAt)
             => Adopts(c)
    ]_vars

\* C18, amended: the credential a login has persisted reloads as it was
\* stored, and an authenticate() that loads it while it is valid (non-empty,
\* more than 5 minutes before its expiresAt) adopts it unchanged and starts
\* no login flow.
C18_ReloadWhileValidAdopted ==
  [][/\ \A f \in Flows : Persists(f) => ReloadsAsPersisted(f)
     /\ LET c == LoadCachedToken
        IN (AuthenticateRuns /\ cache.present
              /\ CredentialValid(c.access_token, c.expiresAt, now))
             => Adopts(c)
    ]_vars

\* the credential login flow 1 persisted is held again after an
\* invalidation, adopted from the file by a later authenticate()
C18_Witness ==
  /\ FlowToken(1) \in invalidated
  /\ nextFlow > 2
  /\ flow[nextFlow - 1].phase = "fulfilled"
  /\ authState.token = FlowToken(1)
  /\ authState.token = LoadCachedToken.access_token
  /\ authState.expiresAt = LoadCachedToken.expiresAt

(* ----------------------------- claims: destroy ------------------------ *)
\* destroy() is called in this step
DestroyStarts == td'.destroys = td.destroys + 1

\* a destroy() call returns in this step
DestroyEnds == td'.closing = 0 /\ (DestroyStarts \/ td.closing # 0)

\* C19: destroy() leaves no credential in authState and, when it returns, no
\* browser in this.browser; called again on what a destroy() has left it
\* returns at once and changes nothing; and a call that returns, after a
\* destroy(), the credential authState held before it has it from an
\* authenticate() that ran after the destroy(), not from memory.
C19_DestroyIdempotent ==
  [][/\ DestroyStarts => authState' = NoAuth
     /\ DestroyEnds => authBrowser' = 0 /\ (td.closing # 0 => td.closing \notin loginOpen')
     /\ (DestroyStarts /\ td.destroys > 0 /\ authState = NoAuth /\ authBrowser = 0) =>
          /\ DestroyEnds
          /\ <<authState, authPromise, authBrowser, loginOpen, cache>>'
               = <<authState, authPromise, authBrowser, loginOpen, cache>>
          /\ <<flow, nextFlow, wq, runq, pc, awaited>>' = <<flow, nextFlow, wq, runq, pc, awaited>>
     /\ \A p \in Callers :
          (Returns(p) /\ td.destroys > 0 /\ authState.token = td.held) => nextFlow > td.flows
    ]_vars

\* destroy() has been called twice and a later call has returned the
\* credential held before, adopted from the cache file
C19_Witness ==
  /\ td.destroys = 2 /\ td.closing = 0
  /\ Truthy(td.held)
  /\ \E p \in Callers : pc[p] = "done"
  /\ authState.token = td.held
  /\ nextFlow > td.flows

(* ----------------------- claims: browser eviction -------------------- *)
\* request r starts getCoveoTokenWithPlaywright in this step
MintStarts(r) == req[r].pc = "direct" /\ req'[r].pc \notin {"direct", "coveo"}

\* the stamp of the persistent browser is older than the idle window
IdleStamp == browser # 0 /\ now - browserLastUsed > BROWSER_IDLE_TIMEOUT

\* request r gets its page in this step
PageOpens(r) == req[r].page = 0 /\ req'[r].page # 0

\* C17: a request that starts a token mint while the stamp of the persistent
\* browser is older than 5 minutes closes that browser; when the close has
\* completed it clears the fields and launches a new browser, on which it
\* creates the context; the page it opens later is on an open browser that
\* is not the one it closed.
C17_IdleBrowserEvicted ==
  [][\A r \in Requests :
       /\ (MintStarts(r) /\ IdleStamp) =>
            /\ browser \notin openB'
            /\ req'[r].pc = "closing" /\ req'[r].old = browser
       /\ (req[r].pc = "closing" /\ req'[r].pc # "closing") =>
            /\ req'[r].pc = "launching"
            /\ browser' = 0 /\ browserContext' = 0
       /\ (req[r].old # 0 /\ req[r].pc = "launching" /\ req'[r].pc = "newctx") =>
            /\ r \notin openB /\ r \in openB'
            /\ browser' = r /\ req'[r].target = r
       /\ (req[r].old # 0 /\ PageOpens(r)) =>
            /\ req'[r].page # req[r].old
            /\ req'[r].page \in openB'
            /\ req[r].old \notin openB'
    ]_vars

C17_Witness ==
  \E r \in Requests : req[r].old # 0 /\ req[r].pc = "newpage" /\ req[r].target \in openB

(* ------------------------ claims: expired session --------------------- *)
\* C20: a getCoveoTokenWithPlaywright call whose listener has seen a response
\* of a login page, at whatever point, ends with SESSION_EXPIRED and without
\* a token, and leaves this.browser and this.browserContext unset and no
\* browser open.
C20_RedirectEndsExpired ==
  (mint.pc = "done" /\ mint.wasRedirectedToLogin) =>
     /\ mint.out = "SESSION_EXPIRED"
     /\ browser = 0 /\ browserContext = 0
     /\ openB = {}

(* --------------------------- claims: searchNotes ----------------------- *)
Range(s) == {s[k] : k \in 1..Len(s)}

\* the k-th strategy attempted has ended, and ended so
SettledAs(k, how) == Len(srch.settled) >= k /\ srch.settled[k] = how

\* C13: for a query of 6 to 8 digits and nothing else whose primary search
\* failed, the second strategy attempted is getNote(query); when it yields a
\* record the call returns one result, its id the query, totalResults 1, and
\* no endpoint of the internal search has been attempted.
C13_DigitQueryFetched ==
  (IsNoteId(srch.query) /\ SettledAs(1, "failed")) =>
     /\ Len(srch.tried) >= 2 /\ srch.tried[2] = "getNote"
     /\ SettledAs(2, "ok") =>
          /\ srch.pc = "returned"
          /\ srch.response.results = <<srch.query>>
          /\ srch.response.totalResults = 1
          /\ Range(srch.tried) \cap Range(searchEndpoints) = {}

C13_Witness ==
  /\ IsNoteId(srch.query) /\ SettledAs(1, "failed") /\ SettledAs(2, "ok")
  /\ srch.pc = "returned"

\* the strategies of a search, in the order of the claim
Strategies == <<"coveo", "getNote">> \o searchEndpoints
Position(name) == CHOOSE k \in 1..Len(Strategies) : Strategies[k] = name

\* C14: the strategies attempted are the primary search first, then in the
\* order primary, getNote, endpoints in list order, none twice and no
\* endpoint before an earlier one of the list; getNote only for a query
\* that passes the pattern test; a strategy that has succeeded is the last
\* one attempted and the call has returned.
C14_ForwardOnly ==
  /\ srch.tried # <<>> => srch.tried[1] = "coveo"
  /\ \A j, k \in 1..Len(srch.tried) :
       j < k => Position(srch.tried[j]) < Position(srch.tried[k])
  /\ \A e \in 2..Len(searchEndpoints) :
       searchEndpoints[e] \in Range(srch.tried) => searchEndpoints[e - 1] \in Range(srch.tried)
  /\ "getNote" \in Range(srch.tried) => IsNoteId(Trim(srch.query))
  /\ \A k \in 1..Len(srch.settled) :
       srch.settled[k] = "ok" => k = Len(srch.tried) /\ srch.pc = "returned"
  /\ \A k \in 2..Len(srch.tried) : SettledAs(k - 1, "failed")

C14_Witness ==
  /\ srch.pc = "returned"
  /\ srch.tried = Strategies
  /\ SettledAs(Len(Strategies), "ok")

\* every strategy the call attempted has failed and none is left
EverySearchStrategyFailed ==
  /\ srch.pc \in {"returned", "threw"}
  /\ \A k \in 1..Len(srch.settled) : srch.settled[k] = "failed"

\* C15: a call whose every strategy failed has thrown, and the message of
\* the error names the query, states what failed and suggests sap_note_get.
C15_TerminalErrorNamesQuery ==
  EverySearchStrategyFailed =>
     /\ srch.pc = "threw"
     /\ "${query}" \in Range(srch.thrown)
     /\ "${errorMessage}" \in Range(srch.thrown)
     /\ \E k \in 1..Len(srch.thrown) :
          srch.thrown[k] = "If you have a specific SAP Note ID, use sap_note_get(id="

(* ----------------------------- login flow ------------------------------ *)
\* C21: the browser launch of a login is attempted at most maxRetries times,
\* and a further attempt follows a resource-exhaustion error only: after any
\* other launch error the login fails without another launch
C21_RelaunchOnlyAfterResourceError ==
  [][\A f \in Flows :
       /\ flow'[f].attempt <= maxRetries
       /\ (flow[f].phase = "launch" /\ flow'[f].phase = "launch"
             /\ flow'[f].attempt > flow[f].attempt)
            => flow'[f].lastError = "resource"]_vars

\* flow f reads the cookies, having seen the caught waits in w time out
ReadsCookiesAfter(f, w) ==
  flow[f].phase = "cookies" /\ flow'[f].phase # "cookies" /\ w \subseteq flow[f].waits

\* the authenticate() call f fails: it adopts and persists nothing
FailsLogin(f) ==
  /\ cache' = cache
  /\ authState' = NoAuth
  /\ flow'[f].failed \/ flow'[f].phase = "rejected"

\* C22: a login whose page is still on a login/auth path when the bounded
\* wait for a redirect ends concludes failure: it adopts no credential in
\* memory and persists none to the cache
C22_StuckOnLoginFails ==
  [][\A f \in Flows : ReadsCookiesAfter(f, {"waitForURL"}) => FailsLogin(f)]_vars

\* C23: a timeout at any bounded wait of the login flow (the navigation, the
\* wait for network idle, the wait for the redirect) makes the login fail: it
\* adopts and persists no credential and its promise rejects
C23_TimeoutFailsLogin ==
  [][\A f \in Flows :
       /\ \A w \in {"networkidle", "waitForURL"} :
            ReadsCookiesAfter(f, {w}) => FailsLogin(f)
       /\ flow'[f].error = "AuthenticationTimeoutError" => flow'[f].phase # "fulfilled"]_vars

\* the authenticate() call f has found the certificate file missing or empty
CertificateMissing(f) == flow[f].cert # "invalid" /\ flow'[f].cert = "invalid"

\* C24: a login that finds no valid cached credential and the certificate
\* file missing or empty fails with the certificate error before it has
\* attempted any browser launch, and leaves authState without credential
C24_CertificateFailsFast ==
  [][\A f \in Flows :
       /\ flow'[f].cert = "invalid" =>
            /\ flow'[f].error = "CertificateLoadError"
            /\ flow'[f].failed \/ flow'[f].phase = "rejected"
       /\ CertificateMissing(f) =>
            /\ flow[f].phase \in {"unused", "launch"}
            /\ flow[f].attempt = 1 /\ flow[f].lastError = "none"
            /\ f \notin loginOpen' /\ authBrowser' # f
            /\ authState' = NoAuth]_vars

\* a login has failed on the certificate, after the clock has moved past the
\* validity of what an earlier login had adopted and persisted, and no
\* browser has been launched since
C24_Witness ==
  \E f \in Flows :
    /\ f > 1 /\ flow[1].phase = "fulfilled"
    /\ flow[f].phase = "rejected" /\ flow[f].error = "CertificateLoadError"
    /\ authState = NoAuth
    /\ ticks > 0
    /\ loginOpen = {}

\* the login flow f ends: the promise of an authenticate() call that went
\* past the cached credential settles
LoginEnds(f) ==
  /\ flow[f].phase \in {"unused", "launch", "nav", "cookies", "cleanup"}
  /\ flow'[f].phase \in {"fulfilled", "rejected"}
  /\ ~(flow[f].phase = "unused" /\ flow'[f].phase = "fulfilled")

\* C25: when a login flow ends, by success or by failure, the browser it
\* launched is closed and the authenticator holds no browser
C25_LoginBrowserClosed ==
  [][\A f \in Flows : LoginEnds(f) => f \notin loginOpen' /\ authBrowser' = 0]_vars

(* ----------------------- claims: request resources --------------------- *)
\* getNoteWithPlaywright is running
Rendering == get.pc \in {"pwsetup", "pwbody", "pwfinally"}

\* C26: when a token-mint request ends the page it opened is closed, and
\* when a browser-rendered fetch ends the page and the browser it opened
\* are closed, whether the request returns a value, returns null or throws
C26_ResourcesReleased ==
  /\ mint.pc = "done" => mint.page # "open"
  /\ ~Rendering => get.page # "open" /\ get.browser # "open"

\* a token mint has thrown SESSION_EXPIRED with its page closed, and a
\* browser-rendered fetch is about to return null with its page and its
\* browser closed
C26_Witness ==
  /\ mint.pc = "done" /\ mint.out = "SESSION_EXPIRED" /\ mint.page = "closed"
  /\ get.pc = "playwright" /\ backend.playwright = "null"
  /\ get.page = "closed" /\ get.browser = "closed"

(* ------------------------ claims: strategy errors ---------------------- *)
\* the strategy getNote awaits throws
FetchStrategyThrows ==
  \/ get.pc = "playwright" /\ backend.playwright = "throws"
  \/ get.pc = "raw" /\ MakeRawRequest(backend.raw) = Thrown
  \/ get.pc = "fallback" /\ MakeRequest(backend.fallback[get.i]) = Thrown

\* the strategy searchNotes awaits fails in this step
SearchStrategyFails ==
  /\ Len(srch'.settled) = Len(srch.settled) + 1
  /\ srch'.settled[Len(srch'.settled)] = "failed"

\* C27: the failure of one strategy never ends the cascade: in searchNotes
\* and in getNote the next strategy is attempted after it; searchNotes throws
\* only when its last strategy has failed, every one attempted before having
\* failed too, and getNote never throws: after its last strategy it returns
\* null
C27_FailureAdvancesCascade ==
  /\ [](srch.pc = "threw" =>
          /\ srch.tried[Len(srch.tried)] = searchEndpoints[Len(searchEndpoints)]
          /\ Range(srch.settled) = {"failed"})
  /\ [](get.result # Thrown)
  /\ [][SearchStrategyFails =>
          IF srch.tried[Len(srch.tried)] # searchEndpoints[Len(searchEndpoints)]
          THEN /\ srch'.pc \notin {"returned", "threw"}
               /\ Len(srch'.tried) = Len(srch.tried) + 1
          ELSE srch'.pc = "threw"]_vars
  /\ [][(FetchStrategyThrows /\ get' # get) =>
          IF Len(get.tried) < Len(GetStrategies)
          THEN /\ get'.pc # "returned"
               /\ get'.tried = Append(get.tried, GetStrategies[Len(get.tried) + 1])
          ELSE get'.pc = "returned" /\ get'.result = Null]_vars

\* searchNotes has thrown after five failed strategies, and getNote has
\* returned null after five strategies that threw
C27_Witness ==
  /\ srch.pc = "threw" /\ Len(srch.settled) = Len(Strategies)
  /\ get.pc = "returned" /\ get.result = Null /\ Len(get.tried) = Len(GetStrategies)
  /\ backend.playwright = "throws" /\ backend.raw = Unreachable
  /\ \A e \in 1..Len(fallbackEndpoints) : backend.fallback[e] = Unreachable

(* ----------------------- claims: persistent browser -------------------- *)
\* a request starts while this.browser is connected and was last used
\* within the idle window
StartsWithinWindow ==
  /\ mint.pc = "idle" /\ mint'.pc # "idle"
  /\ browser # 0 /\ browserContext # 0 /\ browser \in openB
  /\ now - browserLastUsed <= BROWSER_IDLE_TIMEOUT

\* the request goes on with the browser and the context it has found
ReusesBrowser ==
  /\ mint'.reused /\ mint'.pc = "newpage"
  /\ UNCHANGED <<browser, browserContext, openB>>

\* C28 as stated: a request that starts within the idle window with the
\* browser connected reuses browser and context and launches none; it
\* closes its own page only and leaves browser and context open
C28_ReuseLeavesBrowserOpen ==
  [][/\ StartsWithinWindow => ReusesBrowser
     /\ mint.reused => UNCHANGED <<browser, browserContext, openB>>
     /\ mint'.pc = "done" => mint'.page # "open"]_vars

\* C28 amended: a request that starts within the idle window with the
\* browser connected reuses browser and context and launches none; it
\* closes its own page, and leaves browser and context open unless it ends
\* with SESSION_EXPIRED: then it has closed the browser and cleared both
C28_ReuseUnlessSessionExpired ==
  [][/\ StartsWithinWindow => ReusesBrowser
     /\ mint.reused => NewBrowser \notin openB'
     /\ (mint.reused /\ mint'.out # "SESSION_EXPIRED") =>
          UNCHANGED <<browser, browserContext, openB>>
     /\ mint'.pc = "done" => mint'.page # "open"
     /\ (mint'.pc = "done" /\ mint'.out = "SESSION_EXPIRED") =>
          browser' = 0 /\ browserContext' = 0 /\ openB' = {}]_vars

\* a request has reused the connected browser of an earlier one and has
\* returned a token: its page is closed, browser and context are as found
C28_Witness ==
  /\ mint.reused /\ mint.pc = "done" /\ mint.out = "token" /\ mint.page = "closed"
  /\ browser = EarlierBrowser /\ browserContext = EarlierBrowser
  /\ EarlierBrowser \in openB

\* the request has ended, this.browser is connected, and more than the idle
\* window has passed since it was last used
IdleBeyondWindow ==
  /\ mint.pc = "done"
  /\ browser # 0 /\ browser \in openB
  /\ now - browserLastUsed > BROWSER_IDLE_TIMEOUT

\* C29: once the idle window has elapsed since the last token-mint request
\* the persistent browser is eventually closed, with no further request and
\* no shutdown
C29_IdleBrowserEvicted == IdleBeyondWindow ~> (browser \notin openB)

\* C30: the cookies put into a browser context that has just been created
\* are those of the credential the Authenticator holds, which is the one
\* passed to the request
C30_InjectsHeldCookies ==
  mint.injected # <<>> =>
    /\ mint.sapToken = authState.token
    /\ CookieString(mint.injected) = mint.sapToken

(* -------------------------- claims: token capture ---------------------- *)
\* C31: the token a mint returns is the one captured first, the paths being
\* consulted in their priority order: the in-page fetch and the inspection
\* of the page are only started without a token, and a token that has been
\* captured is never replaced by a later capture
C31_FirstCaptureReturned ==
  /\ [](mint.pc \in {"search", "hybrid", "pagejs"} => mint.coveoToken = NoCapture)
  /\ [](mint.out = "token" => mint.coveoToken = mint.first)
  /\ [][mint.coveoToken # NoCapture => mint'.coveoToken = mint.coveoToken]_vars

(* ----------------------- claims: affected components ------------------- *)
\* the row has the form '<COMPONENT> <NUMBER>'
HasForm(item) ==
  /\ item.SoftwareComponentVersion.type = "string"
  /\ Match(item.SoftwareComponentVersion.text) # NoMatch

\* C32: the affected versions are exactly the rows of the form
\* '<COMPONENT> <NUMBER>', in input order, each with component, version and
\* support package; the other rows are dropped, and with no such row the
\* record has no affectedVersions
C32_KeepsMatchingRows ==
  rec.by = "affectedVersions" =>
    LET kept == SelectSeq(doc.items, HasForm)
    IN /\ rec.affectedVersions.defined = (kept # <<>>)
       /\ rec.affectedVersions.list =
            [k \in 1..Len(kept) |->
               [component |-> Match(kept[k].SoftwareComponentVersion.text).component,
                version |-> Match(kept[k].SoftwareComponentVersion.text).version,
                supportPackage |-> kept[k].SupportPackage]]

(* ------------------------- claims: login marker ------------------------ *)
\* C33: whenever no authenticate() call is executing and no caller is about
\* to resume, authPromise is clear: it is reset after every login that ends,
\* fulfilled or rejected, so a marker that is set denotes a login that is
\* still running
C33_MarkerDenotesRunningLogin ==
  (runq = <<>> /\ authPromise # 0) => Pending(authPromise)

(* ---------------------- claims: severity enhancement ------------------- *)
\* the score and the vector of the noteDetail getNoteWithPlaywright passes
\* to enhanceWithCvssFromTab in each of its branches
PassedToTab(by, d) ==
  LET c == ExtractCvssFromContent(d)
  IN IF by = "playwrightSapNote"
     THEN [cvssScore |-> d.fieldScore \/ c.cvssScore,
           cvssVector |-> OrVec(d.fieldVector, c.cvssVector)]
     ELSE [cvssScore |-> c.cvssScore, cvssVector |-> c.cvssVector]

\* C34: the enhancement from the CVSS tab removes nothing: a score or a
\* vector the record had before is in the record returned, unchanged,
\* whatever the tab yields
C34_EnhancementKeepsSeverity ==
  rec.by \in {"playwrightSapNote", "playwrightJson", "playwrightHtml"} =>
    LET before == PassedToTab(rec.by, doc)
    IN /\ before.cvssScore => rec.cvssScore
       /\ before.cvssVector # NoVector => rec.cvssVector = before.cvssVector

(* ------------------------ claims: browsers held ------------------------ *)
\* C35: at most one persistent browser is open: every browser the client
\* has launched is the one this.browser refers to or is closed, under any
\* interleaving of token mints, so that cleanup() leaves none open
C35_OnePersistentBrowser == \A b \in openB : b = browser

\* C36: when the shutdown() of either server has completed, the persistent
\* browser of the client and the browser of the authenticator are closed
C36_ShutdownClosesBrowsers ==
  td.shutdown = "done" => browser \notin openB /\ authBrowser \notin loginOpen

(* ------------------------- claims: result sets ------------------------- *)
\* C37: a search that returns has at most maxResults results, whichever
\* strategy produced them and however many items the backend answered
C37_AtMostMaxResults ==
  srch.pc = "returned" => Len(srch.response.results) <= srch.maxResults

\* the Coveo search answers in this step, successfully and without results
PrimaryAnswersEmpty ==
  /\ srch.pc = "coveo"
  /\ srch'.coveo.status = "ok"
  /\ srch'.coveo.results = 0

\* searchNotes returns in this step, an empty result set, having attempted
\* the Coveo search only
ReturnsEmptyAtOnce ==
  /\ srch'.pc = "returned"
  /\ srch'.response.results = <<>>
  /\ srch'.tried = <<"coveo">>
  /\ srch'.thrown = <<>>

\* C38 as stated: when the Coveo search answers successfully with zero
\* results, searchNotes returns an empty result set with totalResults = 0,
\* attempts no fallback and throws nothing
C38_EmptyPrimaryReturnsZero ==
  [][PrimaryAnswersEmpty =>
       ReturnsEmptyAtOnce /\ srch'.response.totalResults = 0]_vars

\* C38 amended: when the Coveo search answers successfully with zero
\* results, searchNotes returns an empty result set, attempts no fallback
\* and throws nothing; totalResults is the totalCount of the answer, and 0
\* when the answer has none
C38_EmptyPrimaryReturnsTotalCount ==
  [][PrimaryAnswersEmpty =>
       ReturnsEmptyAtOnce /\ srch'.response.totalResults = srch'.coveo.totalCount]_vars

\* searchNotes has returned an empty result set with totalResults = 0 after
\* a Coveo answer without results and without totalCount
C38_Witness ==
  /\ srch.pc = "returned"
  /\ srch.coveo = [status |-> "ok", results |-> 0, totalCount |-> 0]
  /\ srch.response.results = <<>> /\ srch.response.totalResults = 0
  /\ srch.tried = <<"coveo">>

(* ----------------------- claims: writes of the cache ------------------- *)
\* the authenticate() call f is past its browser steps in this step without
\* having thrown: only cleanup() is left, and its promise fulfils
CompletesLogin(f) ==
  /\ flow[f].phase = "cookies"
  /\ flow'[f].phase \in {"cleanup", "fulfilled"}
  /\ ~flow'[f].failed /\ flow'[f].error = "none"

\* the authenticate() call f throws in this step
ThrowsLogin(f) ==
  /\ flow[f].phase \in {"unused", "launch", "nav", "cookies"}
  /\ flow'[f].failed \/ flow'[f].phase = "rejected"

\* the authenticate() call f returns in this step with the credential of
\* the cache file, having started no browser
AdoptsCached(f) ==
  /\ flow[f].phase = "unused" /\ flow'[f].phase = "fulfilled"

McpRequested == http.requests > 0 /\ http.method \in {"GET", "POST", "DELETE"}

\* the token a request presents: its 'bearer' header, else what follows
\* 'Bearer ' in its Authorization header
Presented(bearerHeader, authHeader) ==
  IF Given(bearerHeader)
  THEN bearerHeader
  ELSE IF /\ authHeader.defined /\ Len(authHeader.text) > 2
          /\ authHeader.text[1] = "Bearer" /\ authHeader.text[2] = " "
  THEN Str(SubSeq(authHeader.text, 3, Len(authHeader.text)))
  ELSE Undefined

====
